---- MODULE Spec2Model ----
(***************************************************************************)
(* Hostel management backend: the allocation engine (roomController.js,    *)
(* Room.js), the billing engine (feeController, studentController.js       *)
(* autoCreateChecklistFee) and the package-generation lock.                *)
(*                                                                         *)
(* Documents of the store are records; a collection is a function or a     *)
(* sequence of records.  null is NoStudent / NoRoom / NoDate.  Dates are   *)
(* day numbers; the package lock measures ticks of TickMs milliseconds.    *)
(***************************************************************************)
EXTENDS Integers, Sequences, FiniteSets, TLC

\* ---------------------------------------------------------------- bounds
NumStudents == 2
NumRooms == 2
MaxFees == 2
MaxLedger == 2
MaxShifts == 1
MaxCalls == 2
TickMs == 2000
MaxDay == 61
DayStep == 30

Students == 1..NumStudents
Rooms == 1..NumRooms
Calls == 1..MaxCalls

\* ------------------------------------------------------------ null values
NoStudent == 0
NoRoom == 0
NoDate == 0

VARIABLES
  rooms,      \* Room collection: room id -> document
  students,   \* Student collection: student id -> document
  fees,       \* Fee collection, in creation order
  ledger,     \* LedgerEntry collection, in creation order
  today,      \* the current day
  locks,      \* feeCreationLocks: student id -> age of the lock in ticks, or NoLock
  timers,     \* pending setTimeout lock releases: student id -> set of remaining ticks
  calls,      \* autoCreateChecklistFee requests in flight
  last        \* the response of the operation that completed last

vars == <<rooms, students, fees, ledger, today, locks, timers, calls, last>>
lockVars == <<locks, timers, calls>>

\* ---------------------------------------------------------------- helpers
Max(a, b) == IF a >= b THEN a ELSE b

Abs(a) == IF a >= 0 THEN a ELSE 0 - a

MinOf(S) == CHOOSE x \in S : \A y \in S : x <= y

InSeq(seq, x) == \E i \in DOMAIN seq : seq[i] = x

\* Array.prototype.filter(s => s.toString() !== id.toString())
SeqRemove(seq, x) == SelectSeq(seq, LAMBDA y : y # x)

RECURSIVE SumSeq(_)
SumSeq(seq) == IF seq = <<>> THEN 0 ELSE Head(seq) + SumSeq(Tail(seq))

\* ------------------------------------------------------------ Room schema
BedLabels == <<"A", "B", "C", "D">>
BedNumbers == <<"1", "2", "3", "4">>

\* The rooms of the inventory: room 1 is a triple, every other room a single.
Capacity(r) == IF r = 1 THEN 3 ELSE 1

\* Two price lists for the inventory: one rent for every room, or a cheaper
\* triple with a dearer mess.
FlatPrices == [r \in Rooms |-> [rent |-> 5000, messChargePerMonth |-> 3000]]
MixedPrices ==
  [r \in Rooms |-> IF r = 1 THEN [rent |-> 5000, messChargePerMonth |-> 3500]
                           ELSE [rent |-> 8000, messChargePerMonth |-> 3000]]

FreeBed == [isOccupied |-> FALSE, studentId |-> NoStudent]

\* A room as Room.create leaves it: the save hook builds one free bed per
\* unit of capacity, occupied 0, no students, status 'available'.
NewRoom(r, price) ==
  [occupied |-> 0,
   beds     |-> [i \in 1..Capacity(r) |-> FreeBed],
   students |-> <<>>,
   status   |-> "available",
   rent     |-> price.rent,
   messChargePerMonth |-> price.messChargePerMonth]

\* A student as Student.create leaves it on day 1 (enrollmentDate: Date.now).
NewStudent ==
  [roomNo |-> NoRoom, status |-> "active", enrollmentDate |-> 1,
   hasPendingFees |-> FALSE, totalPendingAmount |-> 0,
   admissionUpToDate |-> NoDate, admissionMonths |-> 0]

OccupiedBeds(beds) == Cardinality({i \in DOMAIN beds : beds[i].isOccupied})

\* roomSchema.pre('save'): status follows occupancy when full, or when empty
\* and marked occupied.  (The bed array is never empty, so it is not rebuilt.)
PreSave(r, room) ==
  IF room.occupied >= Capacity(r)
    THEN [room EXCEPT !.status = "occupied"]
    ELSE IF room.occupied = 0 /\ room.status = "occupied"
      THEN [room EXCEPT !.status = "available"]
      ELSE room

\* beds whose studentId is the student are freed
FreeBedsOf(beds, s) ==
  [i \in DOMAIN beds |->
     IF beds[i].studentId # NoStudent /\ beds[i].studentId = s
       THEN FreeBed ELSE beds[i]]

\* ---------------------------------------------------------- allocateRoom
\* String.prototype.toLowerCase on the bed labels a request can carry
Lower(x) ==
  CASE x = "A" -> "a" [] x = "B" -> "b" [] x = "C" -> "c" [] x = "D" -> "d"
    [] OTHER -> x

BedInputs == {"A", "B", "b", "1"}

\* matchesLabel of allocateRoom: by label, case-insensitively, or by number
MatchesLabel(i, bedLabel) ==
  \/ Lower(BedLabels[i]) = Lower(bedLabel)
  \/ Lower(BedNumbers[i]) = Lower(bedLabel)

\* room.beds.find(matchesLabel && !bed.isOccupied): the index, or 0
FindBed(room, bedLabel) ==
  LET c == {i \in DOMAIN room.beds :
              MatchesLabel(i, bedLabel) /\ ~room.beds[i].isOccupied}
  IN IF c = {} THEN 0 ELSE MinOf(c)

\* "If student already allocated, free previous bed"
FreePrevious(r, room, s) ==
  LET st   == SeqRemove(room.students, s)
      bd   == FreeBedsOf(room.beds, s)
      occ  == Max(OccupiedBeds(bd), Len(st))
      stat == IF occ = 0 THEN "available"
              ELSE IF occ < Capacity(r)
                THEN (IF room.status = "maintenance" THEN "maintenance" ELSE "available")
                ELSE "occupied"
  IN PreSave(r, [room EXCEPT !.occupied = occ, !.beds = bd, !.students = st, !.status = stat])

\* "Allocate room and bed": the room document after the bed is taken
TakeBed(r, room, s, b) ==
  LET st   == IF InSeq(room.students, s) THEN room.students
              ELSE Append(room.students, s)
      occ  == Max(room.occupied, Len(st))
      bd   == [room.beds EXCEPT ![b] = [isOccupied |-> TRUE, studentId |-> s]]
      stat == IF occ >= Capacity(r) THEN "occupied" ELSE room.status
  IN PreSave(r, [room EXCEPT !.occupied = occ, !.beds = bd, !.students = st, !.status = stat])

\* A transfer that gives the first free bed, whatever bed was asked for.
TakeBedShiftFirstFree(r, room, s, b) ==
  LET st   == IF InSeq(room.students, s) THEN room.students
              ELSE Append(room.students, s)
      occ  == Max(room.occupied, Len(st))
      free == {i \in DOMAIN room.beds : ~room.beds[i].isOccupied}
      bd   == [room.beds EXCEPT ![MinOf(free)] = [isOccupied |-> TRUE, studentId |-> s]]
      stat == IF occ >= Capacity(r) THEN "occupied"
              ELSE IF occ > 0
                THEN (IF room.status = "maintenance" THEN "maintenance" ELSE "available")
                ELSE room.status
  IN PreSave(r, [room EXCEPT !.occupied = occ, !.beds = bd, !.students = st, !.status = stat])

\* "Allocate to new room" of shiftRoom: as TakeBed, and a partly occupied
\* room becomes 'available' unless it is under maintenance
TakeBedShift(r, room, s, b) ==
  LET st   == IF InSeq(room.students, s) THEN room.students
              ELSE Append(room.students, s)
      occ  == Max(room.occupied, Len(st))
      bd   == [room.beds EXCEPT ![b] = [isOccupied |-> TRUE, studentId |-> s]]
      stat == IF occ >= Capacity(r) THEN "occupied"
              ELSE IF occ > 0
                THEN (IF room.status = "maintenance" THEN "maintenance" ELSE "available")
                ELSE room.status
  IN PreSave(r, [room EXCEPT !.occupied = occ, !.beds = bd, !.students = st, !.status = stat])

\* The whole handler: the collections it leaves and its response.
AllocateResult(r, s, bedLabel) ==
  LET existing == students[s].roomNo
      rooms1 == IF existing # NoRoom
                  THEN [rooms EXCEPT ![existing] = FreePrevious(existing, rooms[existing], s)]
                  ELSE rooms
      room == rooms1[r]
      b == FindBed(room, bedLabel)
  IN IF room.occupied >= Capacity(r) /\ (existing = NoRoom \/ existing # r)
       THEN [rooms |-> rooms1, students |-> students, ok |-> FALSE, msg |-> "Room is full"]
     ELSE IF b = 0
       THEN [rooms |-> rooms1, students |-> students, ok |-> FALSE, msg |-> "Bed is not available"]
     ELSE [rooms |-> [rooms1 EXCEPT ![r] = TakeBed(r, room, s, b)],
           students |-> [students EXCEPT ![s].roomNo = r],
           ok |-> TRUE, msg |-> BedLabels[b]]

\* The response kept of the last request.  Only deallocateRoom is recorded:
\* its room and student, and whether the request repeats the one before it.
NoResponse ==
  [op |-> "none", room |-> NoRoom, student |-> NoStudent, rep |-> FALSE]

Response(op, r, s, res) ==
  IF op = "deallocateRoom"
    THEN [op |-> op, room |-> r, student |-> s,
          rep |-> (last.op = op /\ last.room = r /\ last.student = s)]
    ELSE NoResponse

AllocateRoom(r, s, bedLabel) ==
  LET res == AllocateResult(r, s, bedLabel)
  IN /\ rooms' = res.rooms
     /\ students' = res.students
     /\ last' = Response("allocateRoom", r, s, res)
     /\ UNCHANGED <<fees, ledger, today, lockVars>>

\* -------------------------------------------------------- deallocateRoom
DemoteStatus(r, occ, status) ==
  IF occ = 0 THEN "available"
  ELSE IF occ < Capacity(r)
    THEN (IF status = "occupied" THEN "available" ELSE status)
    ELSE status

\* A release that counts down instead of recounting the students list.
ReleaseBedCountDown(r, room, s) ==
  LET st  == SeqRemove(room.students, s)
      bd  == FreeBedsOf(room.beds, s)
      occ == room.occupied - 1
  IN PreSave(r, [room EXCEPT !.occupied = occ, !.beds = bd, !.students = st,
                             !.status = DemoteStatus(r, occ, room.status)])

\* the room document after the student is removed and the bed(s) freed
ReleaseBed(r, room, s) ==
  LET st  == SeqRemove(room.students, s)
      bd  == FreeBedsOf(room.beds, s)
      occ == Max(0, Len(st))
  IN PreSave(r, [room EXCEPT !.occupied = occ, !.beds = bd, !.students = st,
                             !.status = DemoteStatus(r, occ, room.status)])

DeallocateResult(r, s) ==
  [rooms |-> [rooms EXCEPT ![r] = ReleaseBed(r, rooms[r], s)],
   students |-> [students EXCEPT ![s].roomNo = NoRoom],
   ok |-> TRUE, msg |-> "deallocated"]

DeallocateRoom(r, s) ==
  LET res == DeallocateResult(r, s)
  IN /\ rooms' = res.rooms
     /\ students' = res.students
     /\ last' = Response("deallocateRoom", r, s, res)
     /\ UNCHANGED <<fees, ledger, today, lockVars>>

\* ------------------------------------------------------------ Fee schema
PackageTypes == {"1month", "5months"}

\* PACKAGE_MONTHS[packageType] || 1, and parseInt(packageType.replace('months', ''))
PackageMonths(packageType) ==
  CASE packageType = "5months" -> 5
    [] packageType = "4months" -> 4
    [] packageType = "3months" -> 3
    [] packageType = "2months" -> 2
    [] OTHER -> 1

\* The defaults of feeSchema
NewFee ==
  [student |-> NoStudent, feeType |-> "other", amount |-> 0, dueDate |-> NoDate,
   status |-> "pending", paidDate |-> NoDate, packageType |-> "",
   checkInDate |-> NoDate, checkOutDate |-> NoDate,
   depositAmount |-> 0, rentAmount |-> 0, messAmount |-> 0, refundAmount |-> 0,
   bedLabel |-> "", source |-> "manual", createdAt |-> NoDate,
   paymentMethod |-> "", transactionId |-> "",
   paidAmount |-> 0, remainingBalance |-> 0,
   youstelAmount |-> 0, hufAmount |-> 0]

\* The enum validators of feeSchema that a request of the model can fail:
\* paymentMethod is 'online' or 'cash' (or absent), and status is of the enum.
FeeStatuses == {"pending", "paid", "overdue", "partial", "checked_out", "refunded"}

FeeValid(fee) ==
  /\ fee.paymentMethod \in {"", "online", "cash"}
  /\ fee.status \in FeeStatuses

\* feeSchema.pre('save'): a pending fee whose due date has passed is overdue.
\* late: the hook's clock read is later than a due date read from the clock
\* earlier in the same request.
FeePreSave(fee, late) ==
  IF fee.status = "pending" /\ (today > fee.dueDate \/ (late /\ today = fee.dueDate))
    THEN [fee EXCEPT !.status = "overdue"]
    ELSE fee

FeesOf(s) == {i \in DOMAIN fees : fees[i].student = s}

\* the recomputation of the pending-fee cache from a fee collection
PendingFeesIn(fs, s) ==
  {i \in DOMAIN fs : fs[i].student = s /\ fs[i].status \in {"pending", "overdue"}}

RECURSIVE SumAmounts(_, _)
SumAmounts(fs, idx) ==
  IF idx = {} THEN 0
  ELSE LET i == MinOf(idx) IN fs[i].amount + SumAmounts(fs, idx \ {i})

WithPendingCache(student, fs, s) ==
  [student EXCEPT !.hasPendingFees = PendingFeesIn(fs, s) # {},
                  !.totalPendingAmount = SumAmounts(fs, PendingFeesIn(fs, s))]

\* ------------------------------------------------------ LedgerEntry schema
\* A description is the sequence of its words.
LedgerEntry(s, type, account, amount, description) ==
  [student |-> s, date |-> today, type |-> type, account |-> account,
   amount |-> amount, description |-> description, voucher |-> ""]

\* The house emoji that opens the note of a room shift.  getStudentLedger
\* looks for the emoji (bytes F0 9F 8F A0); the literal of shiftRoom holds the
\* bytes C3 B0 C5 B8 C2 A0 in its place, three other characters.
HouseEmoji == "U+1F3E0"
GarbledHouse == "U+00F0 U+0178 U+00A0"

\* the description of shiftRoom's informational entry, without the rooms
ShiftedNote == <<GarbledHouse, "Room", "Shifted:">>

\* -------------------------------------------------------------- shiftRoom
ValidBedLabels == {"A", "B", "C", "D"}

Upper(x) ==
  CASE x = "a" -> "A" [] x = "b" -> "B" [] x = "c" -> "C" [] x = "d" -> "D"
    [] OTHER -> x

\* newRoom.beds.find(bed => bed.bedLabel === bedLabel && !bed.isOccupied)
FindBedExact(room, bedLabel) ==
  LET c == {i \in DOMAIN room.beds :
              BedLabels[i] = bedLabel /\ ~room.beds[i].isOccupied}
  IN IF c = {} THEN 0 ELSE MinOf(c)

\* Fee.findOne({student, status in [paid, pending], feeType: 'hostel'}).sort('-createdAt')
ActiveFee(s) ==
  LET c == {i \in FeesOf(s) : fees[i].status \in {"paid", "pending"}
                               /\ fees[i].feeType = "hostel"}
  IN IF c = {} THEN 0 ELSE CHOOSE i \in c : \A j \in c : j <= i

ShiftPackageType(s) ==
  IF ActiveFee(s) # 0 /\ fees[ActiveFee(s)].packageType # ""
    THEN fees[ActiveFee(s)].packageType ELSE "5months"

RemainingMonths(s) ==
  LET f == ActiveFee(s) IN
  IF f # 0 /\ fees[f].packageType # ""
    THEN LET expectedMonths == PackageMonths(fees[f].packageType)
             from == IF fees[f].checkInDate # NoDate THEN fees[f].checkInDate
                     ELSE fees[f].paidDate
         IN IF from # NoDate
              THEN Max(0, expectedMonths - ((today - from) \div 30))
              ELSE expectedMonths
    ELSE 5

\* oldRoom.messChargePerMonth || 3000
MessOf(room) == IF room.messChargePerMonth # 0 THEN room.messChargePerMonth ELSE 3000

RentAdjustment(s, old, new) ==
  (rooms[new].rent - rooms[old].rent) * RemainingMonths(s)
MessAdjustment(s, old, new) ==
  (MessOf(rooms[new]) - MessOf(rooms[old])) * RemainingMonths(s)

\* A transfer that writes its informational entry only when nothing is owed.
ShiftLedgerEntriesWhenEven(s, old, new) ==
  LET rentAdj == RentAdjustment(s, old, new)
      messAdj == MessAdjustment(s, old, new)
      total   == rentAdj + messAdj
      type    == IF total > 0 THEN "Other" ELSE "Payment"
  IN (IF total = 0
        THEN <<[LedgerEntry(s, "Other", "Youstel", 0, ShiftedNote) EXCEPT !.voucher = "SHIFT"]>>
        ELSE <<>>)
     \o (IF total # 0 /\ rentAdj # 0
           THEN <<LedgerEntry(s, type, "Youstel", Abs(rentAdj), <<"Room", "Shift">>)>>
           ELSE <<>>)
     \o (IF total # 0 /\ messAdj # 0
           THEN <<LedgerEntry(s, type, "HUF", Abs(messAdj), <<"Room", "Shift">>)>>
           ELSE <<>>)

\* the ledger entries of a shift: the informational entry, then one entry per
\* non-zero adjustment when the total adjustment is not zero
ShiftLedgerEntries(s, old, new) ==
  LET rentAdj == RentAdjustment(s, old, new)
      messAdj == MessAdjustment(s, old, new)
      total   == rentAdj + messAdj
      isUpgrade == total > 0
      type    == IF isUpgrade THEN "Other" ELSE "Payment"
      adjustmentDescription ==
        IF isUpgrade THEN <<"Room", "Shift", "-", "Upgrade">>
        ELSE <<"Room", "Shift", "-", "Downgrade">>
      tag     == IF isUpgrade THEN <<"[Additional", "Charge]">> ELSE <<"[Refund]">>
  IN <<[LedgerEntry(s, "Other", "Youstel", 0, ShiftedNote) EXCEPT !.voucher = "SHIFT"]>>
     \o (IF total # 0 /\ rentAdj # 0
           THEN <<[LedgerEntry(s, type, "Youstel", Abs(rentAdj),
                     adjustmentDescription \o <<"-", "Hostel", "Fee">> \o tag)
                   EXCEPT !.voucher = "GV-Shift-Hostel"]>>
           ELSE <<>>)
     \o (IF total # 0 /\ messAdj # 0
           THEN <<[LedgerEntry(s, type, "HUF", Abs(messAdj),
                     adjustmentDescription \o <<"-", "Mess", "Fee">> \o tag)
                   EXCEPT !.voucher = "GV-Shift-Mess"]>>
           ELSE <<>>)

\* the fee record of the adjustment ("for tracking") that Fee.create is asked
\* for, when there is one
ShiftFees(s, old, new, bedLabel, late) ==
  LET rentAdj == RentAdjustment(s, old, new)
      messAdj == MessAdjustment(s, old, new)
      total   == rentAdj + messAdj
      isUpgrade == total > 0
  IN IF total = 0 THEN <<>>
     ELSE <<FeePreSave(
              [NewFee EXCEPT !.student = s,
                 !.feeType = IF isUpgrade THEN "hostel" ELSE "other",
                 !.amount = Abs(total), !.dueDate = today,
                 !.status = IF isUpgrade THEN "pending" ELSE "paid",
                 !.rentAmount = Abs(rentAdj), !.messAmount = Abs(messAdj),
                 !.packageType = ShiftPackageType(s), !.bedLabel = bedLabel,
                 !.paidDate = IF isUpgrade THEN NoDate ELSE today,
                 !.paymentMethod = IF isUpgrade THEN "" ELSE "adjustment",
                 !.transactionId = IF isUpgrade THEN "" ELSE "ADJ",
                 !.createdAt = today], late)>>

\* Fee.create throws a validation error on the record of a downgrade: its
\* paymentMethod 'adjustment' is not of the enum.  The handler has by then
\* saved both rooms, the student and the ledger entries; it answers 500.
ShiftThrows(s, old, new) ==
  LET created == ShiftFees(s, old, new, "A", FALSE)
  IN created # <<>> /\ ~FeeValid(created[1])

\* the transfers on record: the informational entries of the ledger
ShiftCount == Len(SelectSeq(ledger, LAMBDA e : e.description = ShiftedNote))

\* the rejections of shiftRoom, in the order the handler tests them
ShiftRejection(s, new, bedLabel) ==
  IF Upper(bedLabel) \notin ValidBedLabels THEN "Invalid bed label"
  ELSE IF students[s].roomNo = NoRoom THEN "Student does not have a room allocated"
  ELSE IF rooms[new].occupied >= Capacity(new) THEN "New room is full"
  ELSE IF FindBedExact(rooms[new], bedLabel) = 0 THEN "Bed is not available"
  ELSE IF students[s].roomNo = new THEN "Student is already in this room"
  ELSE ""

ShiftRoom(s, new, bedLabel, late) ==
  LET why == ShiftRejection(s, new, bedLabel)
      old == students[s].roomNo
  IN IF why # ""
       THEN /\ last' = Response("shiftRoom", new, s, [ok |-> FALSE, msg |-> why])
            /\ UNCHANGED <<rooms, students, fees, ledger, today, lockVars>>
       ELSE LET entries == ShiftLedgerEntries(s, old, new)
                created == ShiftFees(s, old, new, bedLabel, late)
                thrown == ShiftThrows(s, old, new)
                fees1 == IF thrown THEN fees ELSE fees \o created
            IN /\ ShiftCount < MaxShifts
               /\ Len(fees1) <= MaxFees
               /\ rooms' = [rooms EXCEPT
                    ![old] = ReleaseBed(old, rooms[old], s),
                    ![new] = TakeBedShift(new, rooms[new], s,
                                          FindBedExact(rooms[new], bedLabel))]
               /\ ledger' = ledger \o entries
               /\ fees' = fees1
               /\ students' = [students EXCEPT
                    ![s] = IF thrown THEN [@ EXCEPT !.roomNo = new]
                           ELSE WithPendingCache([@ EXCEPT !.roomNo = new], fees1, s)]
               /\ last' = Response("shiftRoom", new, s, [ok |-> TRUE, msg |-> bedLabel])
               /\ UNCHANGED <<today, lockVars>>

\* --------------------------------------------------------------- checkOut
\* new Date(checkOutDate || Date.now()); a date in the future is rejected.
\* The dates a request carries are days the clock of the model has shown.
CheckOutDates == {NoDate} \cup {d \in 1..today : d % DayStep = 1}

\* A duplicate test that looks at the status alone.
CheckOutRejectionByStatus(f) ==
  IF fees[f].student = NoStudent THEN "Fee is not associated with any student"
  ELSE IF fees[f].status = "checked_out" THEN "Already checked out"
  ELSE IF students[fees[f].student].roomNo = NoRoom
    THEN "Student does not have a room allocated"
  ELSE ""

CheckOutRejection(f) ==
  IF fees[f].student = NoStudent THEN "Fee is not associated with any student"
  ELSE IF fees[f].status = "checked_out" \/ fees[f].checkOutDate # NoDate
    THEN "Already checked out"
  ELSE IF students[fees[f].student].roomNo = NoRoom
    THEN "Student does not have a room allocated"
  ELSE ""

\* checkIn = fee.checkInDate || fee.paidDate || fee.createdAt
CheckInOf(fee) ==
  IF fee.checkInDate # NoDate THEN fee.checkInDate
  ELSE IF fee.paidDate # NoDate THEN fee.paidDate
  ELSE fee.createdAt

ExpectedDays(fee) ==
  PackageMonths(IF fee.packageType # "" THEN fee.packageType ELSE "5months") * 30

\* A refund of the unused rent and mess that keeps the deposit.
RefundAmountKeepsDeposit(fee, checkOut) ==
  LET daysDiff == checkOut - CheckInOf(fee)
      expectedDays == ExpectedDays(fee)
      unusedDays == expectedDays - daysDiff
  IN IF daysDiff < expectedDays
       THEN (fee.rentAmount * unusedDays) \div expectedDays
            + (fee.messAmount * unusedDays) \div expectedDays
       ELSE 0

\* the refund of an early checkout, in whole rupees
RefundAmount(fee, checkOut) ==
  LET daysDiff == checkOut - CheckInOf(fee)
      expectedDays == ExpectedDays(fee)
      unusedDays == expectedDays - daysDiff
  IN IF daysDiff < expectedDays
       THEN (fee.rentAmount * unusedDays) \div expectedDays
            + (fee.messAmount * unusedDays) \div expectedDays
            + fee.depositAmount
       ELSE 0

\* A checkout that takes the student off the list and leaves the beds.
CheckOutRoomKeepsBeds(r, room, s) ==
  LET st  == SeqRemove(room.students, s)
      occ == Len(st)
  IN PreSave(r, [room EXCEPT !.occupied = occ, !.students = st,
                             !.status = DemoteStatus(r, occ, room.status)])

\* the room document after checkOut has freed the student's beds
CheckOutRoom(r, room, s) ==
  LET st  == SeqRemove(room.students, s)
      bd  == FreeBedsOf(room.beds, s)
      occ == Len(st)
  IN PreSave(r, [room EXCEPT !.occupied = occ, !.beds = bd, !.students = st,
                             !.status = DemoteStatus(r, occ, room.status)])

CheckOut(f, checkOutDate) ==
  LET why == CheckOutRejection(f)
      s == fees[f].student
  IN IF why # ""
       THEN /\ last' = Response("checkOut", NoRoom, s, [ok |-> FALSE, msg |-> why])
            /\ UNCHANGED <<rooms, students, fees, ledger, today, lockVars>>
       ELSE LET r == students[s].roomNo
                checkOut == IF checkOutDate # NoDate THEN checkOutDate ELSE today
                refund == RefundAmount(fees[f], checkOut)
                fee1 == FeePreSave([fees[f] EXCEPT !.checkOutDate = checkOut,
                                      !.refundAmount = refund,
                                      !.status = "checked_out"], FALSE)
                refundFee == [NewFee EXCEPT !.student = s, !.feeType = "other",
                                !.amount = refund, !.dueDate = today,
                                !.status = "refunded", !.paidDate = today,
                                !.createdAt = today]
                fees1 == IF refund > 0
                           THEN Append([fees EXCEPT ![f] = fee1], refundFee)
                           ELSE [fees EXCEPT ![f] = fee1]
            IN /\ Len(fees1) <= MaxFees
               /\ fees' = fees1
               /\ rooms' = [rooms EXCEPT ![r] = CheckOutRoom(r, rooms[r], s)]
               /\ students' = [students EXCEPT ![s].roomNo = NoRoom,
                                               ![s].status = "inactive"]
               /\ last' = Response("checkOut", r, s, [ok |-> TRUE, msg |-> ""])
               /\ UNCHANGED <<ledger, today, lockVars>>

\* ------------------------------------------------------------- updateRoom
\* The status a request body can carry; "" is a body without a status key.
StatusInputs == {"", "available", "occupied", "maintenance", "unavailable"}

\* "If status is being updated to 'available', check and fix occupancy"
FixOccupancy(room) ==
  IF Len(room.students) = 0
    THEN [room EXCEPT !.occupied = 0,
                      !.beds = [i \in DOMAIN @ |-> FreeBed]]
    ELSE [room EXCEPT !.occupied = Len(room.students),
                      !.beds = [i \in DOMAIN @ |->
                         IF @[i].studentId # NoStudent
                            /\ ~InSeq(room.students, @[i].studentId)
                           THEN FreeBed ELSE @[i]]]

UpdatedRoom(r, room, status) ==
  LET room1 == IF status = "available" THEN FixOccupancy(room) ELSE room
      occ == room1.occupied
      stat == IF status = ""
                THEN (IF occ >= Capacity(r) THEN "occupied"
                      ELSE IF occ = 0 THEN "available"
                      ELSE IF room.status = "maintenance" THEN "maintenance"
                      ELSE "available")
                ELSE status
  IN PreSave(r, [room1 EXCEPT !.status = stat])

UpdateRoom(r, status) ==
  /\ rooms' = [rooms EXCEPT ![r] = UpdatedRoom(r, rooms[r], status)]
  /\ last' = Response("updateRoom", r, NoStudent, [ok |-> TRUE, msg |-> ""])
  /\ UNCHANGED <<students, fees, ledger, today, lockVars>>

\* ---------------------------------------------------------- fixRoomStatus
\* "Also check if students are allocated but beds are not marked": each
\* student of the list without a bed takes the first bed that is free
RECURSIVE GiveBeds(_, _)
GiveBeds(beds, sts) ==
  IF sts = <<>> THEN beds
  ELSE LET s == Head(sts)
           has == \E i \in DOMAIN beds : beds[i].studentId = s
           free == {i \in DOMAIN beds :
                      ~beds[i].isOccupied /\ beds[i].studentId = NoStudent}
       IN IF has \/ free = {}
            THEN GiveBeds(beds, Tail(sts))
            ELSE GiveBeds([beds EXCEPT ![MinOf(free)] =
                             [isOccupied |-> TRUE, studentId |-> s]], Tail(sts))

\* Every student reference of the model resolves, so the populated list
\* (actualStudents) is the students list itself.
FixedRoom(r, room) ==
  IF Len(room.students) = 0
    THEN PreSave(r, [room EXCEPT !.occupied = 0, !.beds = [i \in DOMAIN @ |-> FreeBed],
                                 !.students = <<>>, !.status = "available"])
    ELSE LET bd1 == [i \in DOMAIN room.beds |->
                       IF room.beds[i].studentId # NoStudent
                         THEN (IF InSeq(room.students, room.beds[i].studentId)
                                 THEN [room.beds[i] EXCEPT !.isOccupied = TRUE]
                                 ELSE FreeBed)
                         ELSE [room.beds[i] EXCEPT !.isOccupied = FALSE]]
             bd2 == GiveBeds(bd1, room.students)
             occ == Max(OccupiedBeds(bd2), Len(room.students))
             stat == IF occ >= Capacity(r) THEN "occupied"
                     ELSE IF occ = 0 THEN "available"
                     ELSE IF room.status = "maintenance" THEN "maintenance"
                     ELSE "available"
         IN PreSave(r, [room EXCEPT !.occupied = occ, !.beds = bd2, !.status = stat])

FixRoomStatus(r) ==
  /\ rooms' = [rooms EXCEPT ![r] = FixedRoom(r, rooms[r])]
  /\ last' = Response("fixRoomStatus", r, NoStudent, [ok |-> TRUE, msg |-> ""])
  /\ UNCHANGED <<students, fees, ledger, today, lockVars>>

\* ----------------------------------------------------------------- payFee
\* "Auto-allocate bed if hostel fee and bedLabel provided"
PayFeeRoom(r, room, s, bedLabel) ==
  LET b == FindBedExact(room, bedLabel) IN
  IF b = 0 THEN room
  ELSE LET st == IF InSeq(room.students, s) THEN room.students
                 ELSE Append(room.students, s)
       IN PreSave(r, [room EXCEPT
                        !.beds = [@ EXCEPT ![b] = [isOccupied |-> TRUE, studentId |-> s]],
                        !.students = st,
                        !.occupied = Max(room.occupied, Len(st))])

\* the payment methods the handler accepts, and those a request can carry
ValidPaymentMethods == {"cash", "bank_transfer", "upi", "card", "online", "cheque"}
PaymentMethodInputs == {"cash", "upi", "wire"}
TransactionIdInputs == {"T1", "T2"}

\* the fee document payFee hands to save()
PaidFee(fee, paymentMethod, transactionId) ==
  [fee EXCEPT !.status = "paid", !.paidDate = today,
              !.paymentMethod = paymentMethod, !.transactionId = transactionId]

\* the rejections of payFee (400), and the validation error of save() (500)
PayFeeRejection(f, paymentMethod, transactionId) ==
  IF paymentMethod = "" \/ transactionId = "" THEN "Missing required fields"
  ELSE IF Lower(paymentMethod) \notin ValidPaymentMethods THEN "Invalid payment method"
  ELSE IF fees[f].student = NoStudent THEN "Fee is not associated with any student"
  ELSE IF ~FeeValid(PaidFee(fees[f], paymentMethod, transactionId))
    THEN "Validation failed"
  ELSE ""

PayFee(f, paymentMethod, transactionId) ==
  LET s == fees[f].student
      fee1 == FeePreSave(PaidFee(fees[f], paymentMethod, transactionId), FALSE)
      fees1 == [fees EXCEPT ![f] = fee1]
      r == students[s].roomNo
  IN IF PayFeeRejection(f, paymentMethod, transactionId) # ""
       THEN /\ last' = Response("payFee", NoRoom, s, [ok |-> FALSE])
            /\ UNCHANGED <<rooms, students, fees, ledger, today, lockVars>>
       ELSE /\ fees' = fees1
            /\ rooms' = IF fee1.feeType = "hostel" /\ fee1.bedLabel # "" /\ r # NoRoom
                          THEN [rooms EXCEPT ![r] = PayFeeRoom(r, rooms[r], s, fee1.bedLabel)]
                          ELSE rooms
            /\ students' = [students EXCEPT ![s] = WithPendingCache(@, fees1, s)]
            /\ last' = Response("payFee", NoRoom, s, [ok |-> TRUE])
            /\ UNCHANGED <<ledger, today, lockVars>>

\* -------------------------------------------------------------- updateFee
\* Fee.findByIdAndUpdate(id, req.body, {runValidators: true}): the fields of
\* the body replace those of the fee.  findByIdAndUpdate runs no save hook.
FeeStatusInputs == {"partial"}

\* request bodies: a status alone, or a partial payment with its amounts
UpdateBodies ==
  {[status |-> st] : st \in FeeStatusInputs}
    \cup {[status |-> "partial", paidAmount |-> 1000, remainingBalance |-> 1000]}

UpdatedFee(fee, body) ==
  [k \in DOMAIN fee |-> IF k \in DOMAIN body THEN body[k] ELSE fee[k]]

UpdateFee(f, body) ==
  LET s == fees[f].student
      fees1 == [fees EXCEPT ![f] = UpdatedFee(@, body)]
  IN IF ~FeeValid(fees1[f])
       THEN /\ last' = Response("updateFee", NoRoom, s, [ok |-> FALSE])
            /\ UNCHANGED <<rooms, students, fees, ledger, today, lockVars>>
       ELSE /\ fees' = fees1
            /\ students' = IF s # NoStudent
                             THEN [students EXCEPT ![s] = WithPendingCache(@, fees1, s)]
                             ELSE students
            /\ last' = Response("updateFee", NoRoom, s, [ok |-> TRUE])
            /\ UNCHANGED <<rooms, ledger, today, lockVars>>

\* -------------------------------------------------------------- createFee
FeeTypeInputs == {"hostel", "mess"}
FeeAmountInputs == {0, 6000}
FeeBedInputs == {"", "B"}

\* "Update room occupancy if hostel fee with bedLabel": the bed of that
\* label, when it is free, is given to the student
CreateFeeRoom(r, room, s, bedLabel) ==
  LET c == {i \in DOMAIN room.beds : BedLabels[i] = bedLabel}
  IN IF c = {} \/ room.beds[MinOf(c)].isOccupied THEN room
     ELSE LET st == IF InSeq(room.students, s) THEN room.students
                    ELSE Append(room.students, s)
              occ == Max(room.occupied, Len(st))
              stat == IF occ >= Capacity(r) THEN "occupied"
                      ELSE IF occ > 0
                        THEN (IF room.status = "maintenance" THEN "maintenance"
                              ELSE "available")
                        ELSE room.status
          IN PreSave(r, [room EXCEPT
                           !.beds = [@ EXCEPT ![MinOf(c)] =
                                       [isOccupied |-> TRUE, studentId |-> s]],
                           !.students = st, !.occupied = occ, !.status = stat])

CreateFee(s, amount, dueDate, feeType, bedLabel) ==
  IF amount <= 0
    THEN /\ last' = Response("createFee", NoRoom, s, [ok |-> FALSE])
         /\ UNCHANGED <<rooms, students, fees, ledger, today, lockVars>>
    ELSE LET fee == FeePreSave(
                      [NewFee EXCEPT !.student = s, !.amount = amount,
                                     !.dueDate = dueDate, !.feeType = feeType,
                                     !.bedLabel = bedLabel, !.createdAt = today], FALSE)
             fees1 == Append(fees, fee)
             r == students[s].roomNo
         IN /\ Len(fees1) <= MaxFees
            /\ fees' = fees1
            /\ rooms' = IF feeType = "hostel" /\ bedLabel # "" /\ r # NoRoom
                          THEN [rooms EXCEPT ![r] = CreateFeeRoom(r, rooms[r], s, bedLabel)]
                          ELSE rooms
            /\ students' = [students EXCEPT ![s] = WithPendingCache(@, fees1, s)]
            /\ last' = Response("createFee", NoRoom, s, [ok |-> TRUE])
            /\ UNCHANGED <<ledger, today, lockVars>>

\* -------------------------------------------------------------- deleteFee
RemoveAt(seq, i) == [j \in 1..(Len(seq) - 1) |-> IF j < i THEN seq[j] ELSE seq[j + 1]]

DeleteFee(f) ==
  LET s == fees[f].student
      fees1 == RemoveAt(fees, f)
  IN /\ fees' = fees1
     /\ students' = IF s # NoStudent
                      THEN [students EXCEPT ![s] = WithPendingCache(@, fees1, s)]
                      ELSE students
     /\ last' = Response("deleteFee", NoRoom, s, [ok |-> TRUE])
     /\ UNCHANGED <<rooms, ledger, today, lockVars>>

\* ------------------------------------------------------------- the clock
\* Days pass: Date.now() moves on by DayStep days, up to MaxDay.
AdvanceDay ==
  /\ today + DayStep <= MaxDay
  /\ today' = today + DayStep
  /\ UNCHANGED <<rooms, students, fees, ledger, lockVars, last>>

\* ---------------------------------------------------- ledger descriptions
\* Stem is a word of a description as toLowerCase().includes(...) sees it:
\* lower case, without brackets.
Stem(w) ==
  CASE w \in {"Deposit", "DEPOSIT", "deposit"} -> "deposit"
    [] w \in {"Refund", "refund"} -> "refund"
    [] w \in {"Mark", "mark"} -> "mark"
    [] w \in {"Inactive", "inactive"} -> "inactive"
    [] w \in {"Payment", "payment"} -> "payment"
    [] w \in {"Received", "received"} -> "received"
    [] w \in {"Hostel", "hostel"} -> "hostel"
    [] w \in {"Rent", "rent"} -> "rent"
    [] w \in {"Mess", "mess"} -> "mess"
    [] w \in {"(Youstel)", "Youstel", "youstel"} -> "youstel"
    [] w \in {"(HUF)", "HUF", "huf"} -> "huf"
    [] OTHER -> w

\* description.toLowerCase().includes(word)
Includes(description, word) ==
  \E i \in DOMAIN description : Stem(description[i]) = word

\* description.toLowerCase().includes('mark inactive')
IncludesMarkInactive(description) ==
  \E i \in DOMAIN description :
    /\ i + 1 \in DOMAIN description
    /\ Stem(description[i]) = "mark"
    /\ Stem(description[i + 1]) = "inactive"

\* description.toLowerCase() === 'payment received'
IsPaymentReceived(description) ==
  /\ Len(description) = 2
  /\ Stem(description[1]) = "payment"
  /\ Stem(description[2]) = "received"

\* --------------------------------------------------- addManualLedgerEntry
DescriptionInputs ==
  {<<>>, <<"Payment", "received">>, <<"DEPOSIT", "Refund">>, <<"Refund">>}
ComponentInputs == {"", "Deposit"}
Accounts == {"Youstel", "HUF"}
AmountInputs == {0, 1000, 5000}

\* "Generate proper description based on account and component"
FinalDescription(description, account, component) ==
  IF description = <<>> \/ IsPaymentReceived(description)
    THEN IF account = "Youstel"
           THEN IF component = "Deposit" \/ Includes(description, "deposit")
                  THEN <<"Deposit", "(Youstel)", "Payment", "-", "Online">>
                  ELSE <<"Hostel", "(Youstel)", "Payment", "-", "Online">>
           ELSE <<"Mess", "(HUF)", "Payment", "-", "Online">>
    ELSE IF account = "Youstel" /\ ~Includes(description, "youstel")
           THEN IF Includes(description, "deposit")
                  THEN <<"Deposit", "(Youstel)", "-">> \o description
                  ELSE <<"Hostel", "(Youstel)", "-">> \o description
         ELSE IF account = "HUF" /\ ~Includes(description, "huf")
                 /\ ~Includes(description, "mess")
           THEN <<"Mess", "(HUF)", "-">> \o description
         ELSE description

AddManualLedgerEntry(s, amount, account, description, component) ==
  IF amount <= 0
    THEN /\ last' = Response("addManualLedgerEntry", NoRoom, s, [ok |-> FALSE])
         /\ UNCHANGED <<rooms, students, fees, ledger, today, lockVars>>
    ELSE /\ Len(ledger) < MaxLedger
         /\ ledger' = Append(ledger,
              LedgerEntry(s, "Payment", account, amount,
                          FinalDescription(description, account, component)))
         /\ last' = Response("addManualLedgerEntry", NoRoom, s, [ok |-> TRUE])
         /\ UNCHANGED <<rooms, students, fees, today, lockVars>>

\* ------------------------------------------------ deleteManualLedgerEntries
DeleteManualLedgerEntries(s) ==
  /\ ledger' = SelectSeq(ledger, LAMBDA e : e.student # s)
  /\ last' = Response("deleteManualLedgerEntries", NoRoom, s, [ok |-> TRUE])
  /\ UNCHANGED <<rooms, students, fees, today, lockVars>>

\* ------------------------------------------------- autoCreateChecklistFee
SECURITY_DEPOSIT_AMOUNT == 10000

\* the lock window (timeSinceLock < 10000) and the release delay
\* (setTimeout(..., 2000)), in milliseconds and in ticks of the clock
LockWindowMs == 10000
ReleaseDelayMs == 2000
LockWindow == LockWindowMs \div TickMs
ReleaseDelay == ReleaseDelayMs \div TickMs

NoLock == 0 - 1

\* new Date(dueDate) of a string that is no date
InvalidDate == 0 - 2

\* getRentPerPackage: the rooms of the model carry no per-package rent, so
\* the rent of the room is the rent per month
getRentPerPackage(room, packageType) == room.rent

PackageFeesOf(s) ==
  {i \in FeesOf(s) : fees[i].source = "checklist_auto"}

Completed(fee) == fee.status \in {"paid", "partial", "checked_out", "refunded"}

\* "Check if any previous fee has deposit that was paid"
HasPaidDeposit(s) ==
  \E i \in PackageFeesOf(s) :
    /\ fees[i].depositAmount > 0
    /\ fees[i].status \in {"paid", "partial"}

\* LedgerEntry.find({student, account: 'Youstel', type: 'Payment',
\*   $or: [{description: /deposit/i}, {component: /deposit/i}]}).  The schema
\* of LedgerEntry has no component path, so no stored entry carries one and
\* the second alternative selects nothing.
DepositPayments(s) ==
  SelectSeq(ledger, LAMBDA e :
    /\ e.student = s /\ e.account = "Youstel" /\ e.type = "Payment"
    /\ Includes(e.description, "deposit"))

IsRefund(e) == Includes(e.description, "refund") \/ IncludesMarkInactive(e.description)

RECURSIVE SumEntries(_)
SumEntries(es) == IF es = <<>> THEN 0 ELSE Head(es).amount + SumEntries(Tail(es))

NetDepositPaid(s) ==
  LET paid == SumEntries(SelectSeq(DepositPayments(s), LAMBDA e : ~IsRefund(e)))
      refunded == SumEntries(SelectSeq(DepositPayments(s), IsRefund))
  IN Max(0, paid - refunded)

\* A threshold that counts only more than half of the deposit.
HasDepositPaymentAboveHalf(s) == NetDepositPaid(s) * 2 > SECURITY_DEPOSIT_AMOUNT

\* netDepositPaid >= SECURITY_DEPOSIT_AMOUNT * 0.5
HasDepositPayment(s) == NetDepositPaid(s) * 2 >= SECURITY_DEPOSIT_AMOUNT

DepositAmount(s) ==
  IF ~HasPaidDeposit(s) /\ ~HasDepositPayment(s) THEN SECURITY_DEPOSIT_AMOUNT ELSE 0

\* calculateAdmissionUpToDate(admissionDate, months) of utils/dateCalculator:
\* "enrollmentDate + packageMonths (last day of target month)".  The months of
\* the model have 30 days.
calculateAdmissionUpToDate(admissionDate, months) == admissionDate + 30 * months - 1

\* the update of the student after the fee is created: the package months and,
\* when the student has an admission date, the end of the package
WithAdmission(student, months) ==
  IF student.enrollmentDate = NoDate
    THEN [student EXCEPT !.admissionMonths = months]
    ELSE [student EXCEPT
            !.admissionMonths = months,
            !.admissionUpToDate =
               calculateAdmissionUpToDate(student.enrollmentDate, months)]

\* dueDateValue when the request carries no due date
DefaultDueDate(s) ==
  IF PackageFeesOf(s) # {} /\ \A i \in PackageFeesOf(s) : Completed(fees[i])
    THEN today
  ELSE IF students[s].enrollmentDate # NoDate THEN students[s].enrollmentDate
  ELSE today

\* the label of the bed of the room that carries the student, or none
BedLabelOf(room, s) ==
  LET c == {i \in DOMAIN room.beds :
              room.beds[i].studentId # NoStudent /\ room.beds[i].studentId = s}
  IN IF c = {} THEN "" ELSE BedLabels[MinOf(c)]

\* the ledger entries of the amounts the collection plan says were collected
CollectedEntries(s, body, dueDateValue) ==
  (IF body.hostelAmount > 0
     THEN <<[LedgerEntry(s, "Payment", "Youstel", body.hostelAmount,
               <<"Hostel", "(Youstel)", "Payment", "-", "Package">>)
             EXCEPT !.date = dueDateValue, !.voucher = "GV-Hostel"]>>
     ELSE <<>>)
  \o (IF body.messAmount > 0
     THEN <<[LedgerEntry(s, "Payment", "HUF", body.messAmount,
               <<"Mess", "(HUF)", "Payment", "-", "Package">>)
             EXCEPT !.date = dueDateValue, !.voucher = "GV-Mess"]>>
     ELSE <<>>)
  \o (IF body.depositAmount > 0
     THEN <<[LedgerEntry(s, "Payment", "Youstel", body.depositAmount,
               <<"Deposit", "(Youstel)", "Payment", "-", "Package">>)
             EXCEPT !.date = dueDateValue, !.voucher = "GV-Deposit"]>>
     ELSE <<>>)

\* The handler after the lock is taken: the collections it leaves, its status
\* code, and whether it deleted the lock itself.
PackageResult(s, body, late) ==
  LET unchanged == [fees |-> fees, ledger |-> ledger, students |-> students]
      r == students[s].roomNo
  IN IF r = NoRoom
       THEN unchanged @@ [code |-> 400, unlock |-> TRUE]
     ELSE LET months == PackageMonths(body.packageType)
              rentPerMonth == getRentPerPackage(rooms[r], body.packageType)
              messPerMonth == MessOf(rooms[r])
              depositAmount == DepositAmount(s)
          IN IF rentPerMonth <= 0 \/ messPerMonth <= 0
               THEN unchanged @@ [code |-> 400, unlock |-> FALSE]
             ELSE IF body.dueDate = InvalidDate
               THEN unchanged @@ [code |-> 400, unlock |-> TRUE]
             ELSE
               LET dueDateValue == IF body.dueDate # NoDate THEN body.dueDate
                                   ELSE DefaultDueDate(s)
                   students1 == IF students[s].enrollmentDate = NoDate
                                  THEN [students EXCEPT ![s].enrollmentDate = dueDateValue]
                                  ELSE students
                   ledger1 == IF PackageFeesOf(s) = {}
                                THEN SelectSeq(ledger, LAMBDA e : e.student # s)
                                ELSE ledger
                   packageFee == FeePreSave(
                     [NewFee EXCEPT !.student = s, !.feeType = "hostel",
                        !.amount = rentPerMonth * months + messPerMonth * months
                                   + depositAmount,
                        !.dueDate = dueDateValue, !.status = "pending",
                        !.packageType = body.packageType,
                        !.rentAmount = rentPerMonth * months,
                        !.messAmount = messPerMonth * months,
                        !.depositAmount = depositAmount,
                        !.bedLabel = BedLabelOf(rooms[r], s),
                        !.youstelAmount = rentPerMonth * months + depositAmount,
                        !.hufAmount = messPerMonth * months,
                        !.source = "checklist_auto", !.createdAt = today], late)
                   fees1 == Append(fees, packageFee)
               IN [fees |-> fees1,
                   ledger |-> ledger1 \o CollectedEntries(s, body, dueDateValue),
                   students |-> [students1 EXCEPT
                                   ![s] = WithPendingCache(
                                            WithAdmission(@, months), fees1, s)],
                   code |-> 200, unlock |-> FALSE]

IdleCall == [pc |-> "idle", student |-> NoStudent, age |-> 0, body |-> <<>>]

\* LAYER 1, up to the first await: a lock younger than the window answers
\* 429; otherwise the lock is (re)set and the request goes on.
GenBegin(c, s, body) ==
  /\ calls[c].pc = "idle"
  /\ IF locks[s] # NoLock /\ locks[s] < LockWindow
       THEN /\ last' = Response("autoCreateChecklistFee", NoRoom, s, [ok |-> FALSE])
            /\ UNCHANGED <<rooms, students, fees, ledger, today, lockVars>>
       ELSE /\ locks' = [locks EXCEPT ![s] = 0]
            /\ calls' = [calls EXCEPT ![c] =
                           [pc |-> "running", student |-> s, age |-> 0, body |-> body]]
            /\ last' = Response("autoCreateChecklistFee", NoRoom, s, [ok |-> TRUE])
            /\ UNCHANGED <<rooms, students, fees, ledger, today, timers>>

\* The rest of the handler, and its finally block.  fail: a read or write of
\* the store throws before anything is written (the catch block).
GenRun(c, fail, late) ==
  /\ calls[c].pc = "running"
  /\ LET s == calls[c].student
         res == IF fail
                  THEN [fees |-> fees, ledger |-> ledger, students |-> students,
                        code |-> 500, unlock |-> TRUE]
                  ELSE PackageResult(s, calls[c].body, late)
     IN /\ Len(res.fees) <= MaxFees
        /\ Len(res.ledger) <= MaxLedger
        /\ fees' = res.fees
        /\ ledger' = res.ledger
        /\ students' = res.students
        /\ locks' = IF res.unlock THEN [locks EXCEPT ![s] = NoLock] ELSE locks
        /\ timers' = [timers EXCEPT ![s] = @ \cup {ReleaseDelay}]
        /\ calls' = [calls EXCEPT ![c] = IdleCall]
        /\ last' = Response("autoCreateChecklistFee", NoRoom, s, [ok |-> res.code = 200])
        /\ UNCHANGED <<rooms, today>>

\* A request of a client that waits for the answer and for the release of
\* the lock before it asks again: the handler from the lock check to the
\* finally block, and the release timer, with no other request in between.
GeneratePackage(s, body, late) ==
  LET res == PackageResult(s, body, late)
  IN /\ locks[s] = NoLock \/ locks[s] >= LockWindow
     /\ timers[s] = {}
     /\ \A c \in Calls : calls[c].pc = "idle"
     /\ Len(res.fees) <= MaxFees
     /\ Len(res.ledger) <= MaxLedger
     /\ fees' = res.fees
     /\ ledger' = res.ledger
     /\ students' = res.students
     /\ locks' = [locks EXCEPT ![s] = NoLock]
     /\ last' = Response("autoCreateChecklistFee", NoRoom, s, [ok |-> res.code = 200])
     /\ UNCHANGED <<rooms, today, timers, calls>>

\* setTimeout(() => feeCreationLocks.delete(studentId), 2000): a timer that
\* is due deletes whatever lock the student has
\* A release timer that expires and leaves the lock in the map.
TimerFireKeepsLock(s) ==
  /\ 0 \in timers[s]
  /\ timers' = [timers EXCEPT ![s] = @ \ {0}]
  /\ UNCHANGED <<rooms, students, fees, ledger, today, locks, calls, last>>

TimerFire(s) ==
  /\ 0 \in timers[s]
  /\ timers' = [timers EXCEPT ![s] = @ \ {0}]
  /\ locks' = [locks EXCEPT ![s] = NoLock]
  /\ UNCHANGED <<rooms, students, fees, ledger, today, calls, last>>

\* One tick of the clock passes.  Ages stop counting at the lock window; a due timer
\* may be late.
Tick ==
  /\ \/ \E s \in Students : locks[s] # NoLock \/ timers[s] # {}
     \/ \E c \in Calls : calls[c].pc = "running"
  /\ locks' = [s \in Students |->
                 IF locks[s] = NoLock \/ locks[s] >= LockWindow THEN locks[s]
                 ELSE locks[s] + 1]
  /\ timers' = [s \in Students |-> {Max(0, d - 1) : d \in timers[s]}]
  /\ calls' = [c \in Calls |->
                 IF calls[c].pc = "running" /\ calls[c].age < LockWindow
                   THEN [calls[c] EXCEPT !.age = @ + 1]
                   ELSE calls[c]]
  /\ UNCHANGED <<rooms, students, fees, ledger, today, last>>

\* -------------------------------------------------------- getStudentLedger
\* Fee.find({student, source: 'checklist_auto' or missing}).sort({dueDate: 1}):
\* the indices of the fees the ledger loads, by due date (creation order
\* among equal dates).  fs is the Fee collection.
LoadedFees(fs, s) ==
  LET idx == {f \in DOMAIN fs : fs[f].student = s /\ fs[f].source = "checklist_auto"}
      ids == [i \in 1..Len(fs) |-> i]
  IN SortSeq(SelectSeq(ids, LAMBDA f : f \in idx),
             LAMBDA a, b : \/ fs[a].dueDate < fs[b].dueDate
                           \/ fs[a].dueDate = fs[b].dueDate /\ a < b)

\* a line of completeLedger; entry is the index of the manual ledger entry the
\* line stands for, 0 for a line made from a fee
LedgerLine(type, component, debit, credit, date, feeId) ==
  [type |-> type, component |-> component, debit |-> debit, credit |-> credit,
   date |-> date, feeId |-> feeId, account |-> "", voucher |-> "",
   description |-> <<>>, entry |-> 0]

\* An expansion that always takes the fallback of one month.
ExpansionMonthsFallback(fee) == 1

\* months of the month-wise expansion: PACKAGE_MONTHS[fee.packageType] || 1
ExpansionMonths(fee) == PackageMonths(fee.packageType)

\* The 'Fee' lines of one fee: a package fee of the checklist is expanded into
\* one rent line and one mess line a month and one deposit line; any other
\* fee is a single line of its amount.  A month's lines are dated at the end
\* of its 30 days, counted from the enrollment, or at the due date if later.
FeeLines(f, fee, enrollmentDate) ==
  IF fee.status = "refunded" /\ fee.feeType = "other" THEN <<>>
  ELSE IF /\ fee.packageType # "" /\ fee.source = "checklist_auto"
          /\ fee.rentAmount > 0 /\ fee.messAmount > 0
    THEN LET months == ExpansionMonths(fee)
             rentPerMonth == fee.rentAmount \div months
             messPerMonth == fee.messAmount \div months
             monthDueDate(monthIndex) ==
               Max(fee.dueDate,
                   (IF enrollmentDate # NoDate THEN enrollmentDate ELSE fee.dueDate)
                     + 30 * monthIndex + 29)
         IN [i \in 1..(2 * months) |->
               IF i % 2 = 1
                 THEN LedgerLine("Fee", "Hostel (Youstel)", rentPerMonth, 0,
                                 monthDueDate((i - 1) \div 2), f)
                 ELSE LedgerLine("Fee", "Mess (HUF)", messPerMonth, 0,
                                 monthDueDate((i - 1) \div 2), f)]
            \o (IF fee.depositAmount > 0
                  THEN <<LedgerLine("Fee", "Deposit (Youstel)", fee.depositAmount, 0,
                                    fee.dueDate, f)>>
                  ELSE <<>>)
    ELSE <<LedgerLine("Fee",
                      CASE fee.feeType = "hostel" -> "Hostel (Youstel)"
                        [] fee.feeType = "mess" -> "Mess (HUF)"
                        [] fee.feeType = "security" -> "Deposit (Youstel)"
                        [] OTHER -> "Other",
                      fee.amount, 0, fee.dueDate, f)>>

\* The 'Payment' lines of one fee: one for the Youstel part and one for the
\* HUF part of a paid or partly paid fee.  The fee carries no voucher: the
\* voucher of the line is undefined, that of a manual entry without voucher
\* is null.
FeePaymentLines(f, fee) ==
  IF fee.status \in {"paid", "partial"} /\ fee.paidDate # NoDate
    THEN (IF fee.youstelAmount > 0
            THEN <<[LedgerLine("Payment",
                               IF fee.feeType = "security" THEN "Deposit (Youstel)"
                               ELSE "Hostel (Youstel)",
                               0, fee.youstelAmount, fee.paidDate, f)
                    EXCEPT !.account = "Youstel", !.voucher = "undefined"]>>
            ELSE <<>>)
         \o (IF fee.hufAmount > 0
               THEN <<[LedgerLine("Payment", "Mess (HUF)", 0, fee.hufAmount,
                                  fee.paidDate, f)
                       EXCEPT !.account = "HUF", !.voucher = "undefined"]>>
               ELSE <<>>)
    ELSE <<>>

\* The line of a manual ledger entry: no fee, no component.
ManualLine(i, e) ==
  [LedgerLine(e.type, "", 0, e.amount, e.date, 0)
   EXCEPT !.account = e.account, !.voucher = e.voucher,
          !.description = e.description, !.entry = i]

RECURSIVE FlattenLines(_)
FlattenLines(seqs) ==
  IF seqs = <<>> THEN <<>> ELSE Head(seqs) \o FlattenLines(Tail(seqs))

\* LedgerEntry.find({student}).sort('date'): the manual entries of the
\* student, as indices into the LedgerEntry collection
ManualEntries(lg, s) ==
  SortSeq(SelectSeq([i \in 1..Len(lg) |-> i], LAMBDA i : lg[i].student = s),
          LAMBDA a, b : \/ lg[a].date < lg[b].date
                        \/ lg[a].date = lg[b].date /\ a < b)

\* Array.prototype.sort by date, which keeps the order of equal dates
SortByDate(lines) ==
  LET order == SortSeq([i \in 1..Len(lines) |-> i],
                       LAMBDA a, b : \/ lines[a].date < lines[b].date
                                     \/ lines[a].date = lines[b].date /\ a < b)
  IN [k \in 1..Len(lines) |-> lines[order[k]]]

\* completeLedger: the lines of every loaded fee and the manual entries, by
\* date.  student is the Student document.
CompleteLedger(fs, lg, s, student) ==
  LET loaded == LoadedFees(fs, s)
      manual == ManualEntries(lg, s)
  IN SortByDate(
       FlattenLines([k \in 1..Len(loaded) |->
                       FeeLines(loaded[k], fs[loaded[k]], student.enrollmentDate)
                         \o FeePaymentLines(loaded[k], fs[loaded[k]])])
       \o [k \in 1..Len(manual) |-> ManualLine(manual[k], lg[manual[k]])])

\* parseInt(fee.packageType?.replace('months', '')) || 0
ParsedMonths(packageType) ==
  IF packageType = "" THEN 0 ELSE PackageMonths(packageType)

\* Math.round(a / b) for a >= 0 and b > 0
RoundDiv(a, b) == (2 * a + b) \div (2 * b)

\* the identifier of a session: the fee, 'default-<student>', or
\* 'room-<roomNo>-<index>'; index is also its position in sessionMap
SessionId(kind, f, room, index) ==
  [kind |-> kind, fee |-> f, room |-> room, index |-> index]

\* The session of a loaded fee.  Amounts missing from the fee are taken from
\* the payment split, then estimated as 70% rent and 30% mess.
FeeSession(f, fee, student, index) ==
  LET zero == fee.rentAmount = 0 /\ fee.messAmount = 0 /\ fee.depositAmount = 0
      rent1 == IF zero THEN Max(0, fee.youstelAmount - fee.depositAmount)
               ELSE fee.rentAmount
      mess1 == IF zero THEN fee.hufAmount ELSE fee.messAmount
      estimate == rent1 = 0 /\ mess1 = 0 /\ fee.amount > 0 /\ fee.packageType # ""
      rentAmount == IF estimate THEN RoundDiv(fee.amount * 7, 10) ELSE rent1
      messAmount == IF estimate THEN fee.amount - rentAmount ELSE mess1
  IN [sessionId |-> SessionId("fee", f, "", index),
      packageMonths |-> ParsedMonths(fee.packageType),
      dueDate |-> fee.dueDate,
      createdAt |-> fee.createdAt,
      upToDate |-> IF student.admissionUpToDate # NoDate THEN student.admissionUpToDate
                   ELSE calculateAdmissionUpToDate(
                          IF student.enrollmentDate # NoDate
                            THEN student.enrollmentDate ELSE fee.dueDate,
                          IF student.admissionMonths # 0 THEN student.admissionMonths
                          ELSE ParsedMonths(fee.packageType)),
      rentAmount |-> rentAmount,
      messAmount |-> messAmount,
      depositAmount |-> fee.depositAmount,
      totalAmount |-> IF fee.amount # 0 THEN fee.amount
                      ELSE rentAmount + messAmount + fee.depositAmount,
      status |-> fee.status,
      payments |-> <<>>,
      isRoomShifted |-> FALSE]

\* The session of a student no fee is loaded for; now is the day of the call.
DefaultSession(student, now) ==
  [sessionId |-> SessionId("default", 0, "", 0),
   packageMonths |-> IF student.admissionMonths # 0 THEN student.admissionMonths ELSE 1,
   dueDate |-> IF student.admissionUpToDate # NoDate THEN student.admissionUpToDate ELSE now,
   createdAt |-> IF student.enrollmentDate # NoDate THEN student.enrollmentDate ELSE now,
   upToDate |-> IF student.admissionUpToDate # NoDate THEN student.admissionUpToDate ELSE now,
   rentAmount |-> 0, messAmount |-> 0, depositAmount |-> 0, totalAmount |-> 0,
   status |-> IF student.status # "" THEN student.status ELSE "active",
   payments |-> <<>>,
   isRoomShifted |-> FALSE]

\* sessionMap as the fees leave it, in insertion order
FeeSessions(fs, s, student, now) ==
  LET loaded == LoadedFees(fs, s)
  IN IF loaded = <<>> THEN <<DefaultSession(student, now)>>
     ELSE [k \in 1..Len(loaded) |->
             FeeSession(loaded[k], fs[loaded[k]], student, k - 1)]

\* entry.description.includes('<house> Room Shifted:')
IsShiftMarker(description) ==
  \E i \in DOMAIN description :
    /\ i + 2 \in DOMAIN description
    /\ description[i] = HouseEmoji
    /\ description[i + 1] = "Room"
    /\ description[i + 2] = "Shifted:"

\* description.match(/<house> Room Shifted: (.+?) \((.+?), Bed (.+?)\) -> ... /):
\* the marker followed by the old room, the arrow and the new room.  A room
\* with its type and bed ("101 (Double, Bed A)") is one word of the model.
RoomWords == {"R1", "R2"}

ShiftMatch(description) ==
  LET at == {i \in DOMAIN description :
               /\ i + 5 \in DOMAIN description
               /\ description[i] = HouseEmoji
               /\ description[i + 1] = "Room"
               /\ description[i + 2] = "Shifted:"
               /\ description[i + 3] \in RoomWords
               /\ description[i + 4] = "->"
               /\ description[i + 5] \in RoomWords}
  IN IF at = {} THEN [matched |-> FALSE, oldRoomNo |-> "", newRoomNo |-> ""]
     ELSE LET i == MinOf(at)
          IN [matched |-> TRUE, oldRoomNo |-> description[i + 3],
              newRoomNo |-> description[i + 5]]

\* roomTimeline: for each marker the regular expression reads, the period of
\* the old room up to the day before the shift; after the last marker, the
\* period of the new room up to the end of the package.  shifts are the
\* markers by date, original the first session of sessionMap.
RECURSIVE RoomTimeline(_, _, _, _, _)
RoomTimeline(lg, shifts, shiftIndex, currentStartDate, original) ==
  IF shiftIndex > Len(shifts) THEN <<>>
  ELSE LET e == lg[shifts[shiftIndex]]
           m == ShiftMatch(e.description)
       IN IF ~m.matched
            THEN RoomTimeline(lg, shifts, shiftIndex + 1, currentStartDate, original)
          ELSE <<[roomNo |-> m.oldRoomNo, startDate |-> currentStartDate,
                  endDate |-> e.date - 1, isFirst |-> shiftIndex = 1,
                  isLast |-> FALSE]>>
               \o (IF shiftIndex = Len(shifts)
                     THEN <<[roomNo |-> m.newRoomNo, startDate |-> e.date,
                             endDate |-> original.upToDate, isFirst |-> FALSE,
                             isLast |-> TRUE]>>
                     ELSE <<>>)
               \o RoomTimeline(lg, shifts, shiftIndex + 1, e.date, original)

\* the session of one period of the timeline, with the amounts of the
\* original session in proportion to the months of the period
RoomSession(roomPeriod, index, original) ==
  LET daysDuration == Max(1, roomPeriod.endDate - roomPeriod.startDate + 1)
      monthsDuration == Max(1, (daysDuration + 29) \div 30)
      rentAmount == RoundDiv(original.rentAmount * monthsDuration, original.packageMonths)
      messAmount == RoundDiv(original.messAmount * monthsDuration, original.packageMonths)
      depositAmount == IF roomPeriod.isFirst THEN original.depositAmount ELSE 0
  IN [sessionId |-> SessionId("room", 0, roomPeriod.roomNo, index),
      packageMonths |-> monthsDuration,
      dueDate |-> IF roomPeriod.isLast THEN original.dueDate ELSE roomPeriod.endDate,
      createdAt |-> roomPeriod.startDate,
      upToDate |-> roomPeriod.endDate,
      rentAmount |-> rentAmount,
      messAmount |-> messAmount,
      depositAmount |-> depositAmount,
      totalAmount |-> rentAmount + messAmount + depositAmount,
      status |-> IF roomPeriod.isLast THEN "active" ELSE "completed",
      payments |-> <<>>,
      isRoomShifted |-> ~roomPeriod.isLast]

\* sessionMap after the room shifts: when the manual ledger holds a marker,
\* every session is deleted and the first one is replaced by the sessions of
\* its timeline.  (Every session has packageMonths >= 1: a loaded fee has a
\* package type.)
SessionMap(fs, lg, s, student, now) ==
  LET sessions == FeeSessions(fs, s, student, now)
      shifts == SelectSeq(ManualEntries(lg, s),
                          LAMBDA i : IsShiftMarker(lg[i].description))
  IN IF shifts = <<>> THEN sessions
     ELSE LET original == sessions[1]
              timeline == RoomTimeline(lg, shifts, 1, original.createdAt, original)
          IN [k \in 1..Len(timeline) |-> RoomSession(timeline[k], k - 1, original)]

\* Object.values(sessionMap).sort by createdAt, keeping the order of equal dates
SortedSessions(sessions) ==
  LET order == SortSeq([i \in 1..Len(sessions) |-> i],
                       LAMBDA a, b : \/ sessions[a].createdAt < sessions[b].createdAt
                                     \/ /\ sessions[a].createdAt = sessions[b].createdAt
                                        /\ a < b)
  IN [k \in 1..Len(sessions) |-> sessions[order[k]]]

\* Array.prototype.find, as an index: 0 when no element passes the test
FindIndex(seq, Test(_)) ==
  LET hits == {i \in DOMAIN seq : Test(seq[i])}
  IN IF hits = {} THEN 0 ELSE MinOf(hits)

\* voucher?.includes('Deposit')
VoucherIncludesDeposit(voucher) == voucher \in {"GV-Deposit", "DEP"}

\* the deposit test of the manual entries and of the payment lines
IsDepositPayment(p) ==
  \/ /\ p.account = "Youstel"
     /\ Includes(p.description, "deposit") \/ VoucherIncludesDeposit(p.voucher)
  \/ p.component = "Deposit (Youstel)"

\* The session a payment is matched to by its date (an index of
\* sortedSessions): with a completed or shifted session among several, the
\* old one takes what is dated before the start of the active one and the
\* active one the rest; otherwise the first active session takes it, or the
\* last session that began on or before the date, or the last session.
DateMatch(sessions, p) ==
  LET isOld(x) == x.status = "completed" \/ x.isRoomShifted
      isActive(x) == x.status = "active" \/ ~x.isRoomShifted
      oldSession == FindIndex(sessions, isOld)
      activeSession == FindIndex(sessions, isActive)
      byDate == {i \in DOMAIN sessions : p.date >= sessions[i].createdAt}
  IN IF oldSession # 0 /\ Len(sessions) > 1
       THEN IF activeSession # 0
              THEN IF p.date < sessions[activeSession].createdAt THEN oldSession
                   ELSE activeSession
            ELSE Len(sessions)
     ELSE IF activeSession # 0 THEN activeSession
     ELSE IF byDate # {} THEN CHOOSE i \in byDate : \A j \in byDate : j <= i
     ELSE Len(sessions)

\* The session a manual entry is matched to (0 for none): a deposit goes to
\* the first session that charges a deposit, or to the first session.
ManualMatch(sessions, p) ==
  LET hasDeposit(x) == x.depositAmount > 0
  IN IF sessions = <<>> THEN 0
     ELSE IF IsDepositPayment(p)
       THEN IF FindIndex(sessions, hasDeposit) # 0 THEN FindIndex(sessions, hasDeposit)
            ELSE 1
     ELSE DateMatch(sessions, p)

\* matchedSession.payments.push(...)
PushPayment(sessions, i, p) ==
  IF i = 0 THEN sessions
  ELSE [sessions EXCEPT ![i].payments = Append(@, p)]

\* manualEntries.forEach: every manual entry is pushed to its session
RECURSIVE MatchManualEntries(_, _)
MatchManualEntries(sessions, lines) ==
  IF lines = <<>> THEN sessions
  ELSE MatchManualEntries(
         PushPayment(sessions, ManualMatch(sessions, Head(lines)), Head(lines)),
         Tail(lines))

\* The session a 'Payment' line of completeLedger is matched to (0 for none):
\* a deposit goes to the session whose status is 'active', if there is one;
\* a line of a fee goes to the session of the fee, if sessionMap still has it.
PaymentMatch(sessions, p) ==
  LET isActive(x) == x.status = "active"
      hasDeposit(x) == x.depositAmount > 0
      ofFee(x) == x.sessionId.kind = "fee" /\ x.sessionId.fee = p.feeId
  IN IF sessions = <<>> THEN 0
     ELSE IF IsDepositPayment(p)
       THEN IF FindIndex(sessions, isActive) # 0 THEN FindIndex(sessions, isActive)
            ELSE IF FindIndex(sessions, hasDeposit) # 0
              THEN FindIndex(sessions, hasDeposit)
            ELSE 1
     ELSE IF p.feeId # 0 /\ FindIndex(sessions, ofFee) # 0
       THEN FindIndex(sessions, ofFee)
     ELSE DateMatch(sessions, p)

\* "already added": a payment of the session with the voucher, the amount and
\* the date of the line
AlreadyExists(session, p) ==
  \E k \in DOMAIN session.payments :
    /\ session.payments[k].voucher = p.voucher
    /\ session.payments[k].credit = p.credit
    /\ session.payments[k].date = p.date

\* paymentEntries.forEach: the 'Payment' lines with a credit, the manual ones
\* among them, are pushed to their session unless it has them already
RECURSIVE MatchPaymentEntries(_, _)
MatchPaymentEntries(sessions, lines) ==
  IF lines = <<>> THEN sessions
  ELSE LET p == Head(lines)
           i == PaymentMatch(sessions, p)
       IN MatchPaymentEntries(
            IF i # 0 /\ ~AlreadyExists(sessions[i], p)
              THEN PushPayment(sessions, i, p) ELSE sessions,
            Tail(lines))

\* description.toLowerCase().includes('room shift')
IncludesRoomShift(description) ==
  \E i \in DOMAIN description :
    /\ i + 1 \in DOMAIN description
    /\ description[i] \in {"Room", "room"}
    /\ description[i + 1] \in {"Shift", "shift", "Shifted", "Shifted:"}

\* the sum of the credits of the payments that pass the test
SumCredits(payments, Test(_)) ==
  SumSeq([k \in 1..Len(payments) |->
            IF Test(payments[k]) THEN payments[k].credit ELSE 0])

\* The paid amounts, the balance and the status of a session.  In the active
\* session of a room shift only the deposits and the payments dated from its
\* start on count, and only the shift adjustments are due.  (The amounts of a
\* session are taken from the fee lines when rent or mess is 0, which no
\* session of a fee and no session of a room is.)
WithBalance(session) ==
  LET isActiveAfterShift == session.status = "active" /\ ~session.isRoomShifted
      isDeposit(p) ==
        Includes(p.description, "deposit") \/ p.component = "Deposit (Youstel)"
      counted(p) == ~isActiveAfterShift \/ p.date >= session.createdAt
      isYoustel(p) == p.account = "Youstel" /\ (isDeposit(p) \/ counted(p))
      isHuf(p) == p.account = "HUF" /\ counted(p)
      isHostelAdjustment(p) ==
        /\ p.type = "Other"
        /\ IncludesRoomShift(p.description) \/ p.voucher = "GV-Shift-Hostel"
      isMessAdjustment(p) ==
        /\ p.type = "Other"
        /\ IncludesRoomShift(p.description) \/ p.voucher = "GV-Shift-Mess"
      isRefund(p) ==
        Includes(p.description, "refund") \/ IncludesMarkInactive(p.description)
      depositPaidTest(p) ==
        isYoustel(p) /\ ~isHostelAdjustment(p) /\ isDeposit(p) /\ ~isRefund(p)
      depositRefundedTest(p) ==
        isYoustel(p) /\ ~isHostelAdjustment(p) /\ isDeposit(p) /\ isRefund(p)
      hostelPaidTest(p) ==
        isYoustel(p) /\ ~isHostelAdjustment(p) /\ ~isDeposit(p) /\ p.type = "Payment"
      messPaidTest(p) == isHuf(p) /\ ~isMessAdjustment(p) /\ p.type = "Payment"
      youstelAdjustmentTest(p) == isYoustel(p) /\ isHostelAdjustment(p)
      hufAdjustmentTest(p) == isHuf(p) /\ isMessAdjustment(p)
      hostelPaid == SumCredits(session.payments, hostelPaidTest)
      messPaid == SumCredits(session.payments, messPaidTest)
      netDepositPaid == Max(0, SumCredits(session.payments, depositPaidTest)
                                 - SumCredits(session.payments, depositRefundedTest))
      youstelShiftAdjustments == SumCredits(session.payments, youstelAdjustmentTest)
      hufShiftAdjustments == SumCredits(session.payments, hufAdjustmentTest)
      adjustedTotalAmount ==
        session.rentAmount + youstelShiftAdjustments
          + session.messAmount + hufShiftAdjustments + session.depositAmount
      paidTotal == hostelPaid + messPaid + netDepositPaid
      totalDue ==
        IF isActiveAfterShift /\ (youstelShiftAdjustments > 0 \/ hufShiftAdjustments > 0)
          THEN Max(0, youstelShiftAdjustments + hufShiftAdjustments - paidTotal)
          ELSE Max(0, adjustedTotalAmount - paidTotal)
      status ==
        IF totalDue = 0
          THEN IF session.status \notin {"paid", "checked_out"} THEN "paid"
               ELSE session.status
        ELSE IF totalDue < session.totalAmount
          THEN IF session.status \notin {"partial", "checked_out"} THEN "partial"
               ELSE session.status
        ELSE IF session.status = "paid" THEN "pending"
        ELSE session.status
  IN [sessionId |-> session.sessionId,
      packageMonths |-> session.packageMonths,
      dueDate |-> session.dueDate,
      createdAt |-> session.createdAt,
      upToDate |-> session.upToDate,
      rentAmount |-> session.rentAmount,
      messAmount |-> session.messAmount,
      depositAmount |-> session.depositAmount,
      totalAmount |-> session.totalAmount,
      status |-> status,
      payments |-> session.payments,
      isRoomShifted |-> session.isRoomShifted,
      paid |-> [hostel |-> hostelPaid, mess |-> messPaid, deposit |-> netDepositPaid,
                total |-> paidTotal],
      hufShiftAdjustments |-> hufShiftAdjustments,
      totalDue |-> totalDue]

\* pushes the payments of a list that the session does not have already
RECURSIVE PushMissing(_, _)
PushMissing(session, payments) ==
  IF payments = <<>> THEN session
  ELSE PushMissing(
         IF AlreadyExists(session, Head(payments)) THEN session
         ELSE [session EXCEPT !.payments = Append(@, Head(payments))],
         Tail(payments))

\* Second pass: the active session of a room shift without a mess adjustment
\* shows the mess as paid when the old session has it paid, and takes a copy
\* of the mess payments of the old session.
InheritMess(sessions, k) ==
  LET session == sessions[k]
      isOld(x) == (x.status = "completed" \/ x.isRoomShifted)
                    /\ x.sessionId # session.sessionId
      old == FindIndex(sessions, isOld)
      oldMessPayments ==
        SelectSeq(sessions[old].payments,
                  LAMBDA p : /\ p.account = "HUF" /\ p.type = "Payment" /\ p.credit > 0
                             /\ ~IncludesRoomShift(p.description)
                             /\ p.voucher # "GV-Shift-Mess")
  IN IF /\ session.status = "active" /\ ~session.isRoomShifted
        /\ session.hufShiftAdjustments = 0
        /\ old # 0
        /\ sessions[old].paid.mess >= sessions[old].messAmount
       THEN PushMissing(
              [session EXCEPT
                 !.paid = [@ EXCEPT !.mess = session.messAmount,
                                    !.total = @.hostel + session.messAmount + @.deposit]],
              oldMessPayments)
       ELSE session

\* Object.values(sessionMap).sort by createdAt, latest first, keeping the
\* order of sessionMap among equal dates
LatestFirst(sessions) ==
  LET order == SortSeq([i \in 1..Len(sessions) |-> i],
                       LAMBDA a, b :
                         \/ sessions[a].createdAt > sessions[b].createdAt
                         \/ /\ sessions[a].createdAt = sessions[b].createdAt
                            /\ sessions[a].sessionId.index < sessions[b].sessionId.index)
  IN [k \in 1..Len(sessions) |-> sessions[order[k]]]

\* The statuses of the sessions that are returned, latest first.  Of an
\* inactive student every session is completed unless it is checked out.
\* Of any other student the latest session takes the stored status of its fee
\* (pending, partial, or active for a paid fee) when the student has a room
\* and the fee is pending, partial or paid, and is completed otherwise; the
\* older sessions are completed unless they are checked out.
FinalStatuses(sessions, fs, student) ==
  LET history(x) == IF x.status \notin {"completed", "checked_out"}
                      THEN [x EXCEPT !.status = "completed"] ELSE x
      mostRecent == sessions[1]
      hasValidFee == mostRecent.sessionId.kind = "fee"
      sessionFee == fs[mostRecent.sessionId.fee]
      shouldBeActive == /\ student.roomNo # NoRoom
                        /\ hasValidFee
                        /\ sessionFee.status \in {"pending", "partial", "paid"}
  IN IF student.status = "inactive"
       THEN [k \in 1..Len(sessions) |-> history(sessions[k])]
     ELSE [k \in 1..Len(sessions) |->
             IF k > 1 THEN history(sessions[k])
             ELSE IF ~shouldBeActive THEN [mostRecent EXCEPT !.status = "completed"]
             ELSE IF sessionFee.status = "paid" THEN [mostRecent EXCEPT !.status = "active"]
             ELSE [mostRecent EXCEPT !.status = sessionFee.status]]

\* the session of the last fallback, when no session is left
EmergencySession(student, now) ==
  WithBalance(
    [DefaultSession(student, now) EXCEPT
       !.sessionId = SessionId("emergency", 0, "", 0),
       !.packageMonths = student.admissionMonths,
       !.status = IF student.status = "inactive" THEN "completed" ELSE "active"])

\* getStudentLedger: the answer for student s on day now, from the Fee
\* collection fs, the LedgerEntry collection lg and the Student collection
\* sts.  With no session left and a student who is not inactive, reading the
\* status of the first session throws, and the answer is 500.
GetStudentLedger(fs, lg, sts, s, now) ==
  LET student == sts[s]
      completeLedger == CompleteLedger(fs, lg, s, student)
      manual == ManualEntries(lg, s)
      manualLines == [k \in 1..Len(manual) |-> ManualLine(manual[k], lg[manual[k]])]
      paymentEntries == SelectSeq(completeLedger,
                                  LAMBDA e : e.type = "Payment" /\ e.credit > 0)
      sortedSessions == SortedSessions(SessionMap(fs, lg, s, student, now))
      matched == MatchPaymentEntries(MatchManualEntries(sortedSessions, manualLines),
                                     paymentEntries)
      balanced == [k \in 1..Len(matched) |-> WithBalance(matched[k])]
      inherited == [k \in 1..Len(balanced) |-> InheritMess(balanced, k)]
      sessions == LatestFirst(inherited)
  IN IF sessions = <<>>
       THEN IF student.status = "inactive"
              THEN [code |-> 200, ledger |-> completeLedger,
                    sessions |-> <<EmergencySession(student, now)>>]
              ELSE [code |-> 500, ledger |-> <<>>, sessions |-> <<>>]
       ELSE [code |-> 200, ledger |-> completeLedger,
             sessions |-> FinalStatuses(sessions, fs, student)]

\* GET /students/:id/ledger: the handler reads and answers, and writes nothing
GetLedger(s) ==
  /\ last' = Response("getStudentLedger", NoRoom, s,
                      [ok |-> GetStudentLedger(fees, ledger, students, s, today).code = 200])
  /\ UNCHANGED <<rooms, students, fees, ledger, today, lockVars>>

\* ----------------------------------------------------------------- Init
InitStore ==
  /\ rooms = [r \in Rooms |-> NewRoom(r, FlatPrices[r])]
  /\ students = [s \in Students |-> NewStudent]
  /\ fees = <<>>
  /\ ledger = <<>>
  /\ today = 1
  /\ locks = [s \in Students |-> NoLock]
  /\ timers = [s \in Students |-> {}]
  /\ calls = [c \in Calls |-> IdleCall]
  /\ last = NoResponse

\* ------------------------------------------- the allocation engine alone
InitAlloc == InitStore

NextAlloc ==
  \/ \E r \in Rooms, s \in Students, b \in BedInputs : AllocateRoom(r, s, b)
  \/ \E r \in Rooms, s \in Students : DeallocateRoom(r, s)
  \/ \E s \in Students, r \in Rooms, b \in BedInputs, late \in BOOLEAN :
       ShiftRoom(s, r, b, late)

SpecAlloc == InitAlloc /\ [][NextAlloc]_vars

\* ------------------------------------ the allocation engine and checkOut
\* Every student has a fee: a hostel fee entered by hand (createFee) with
\* no bed label, due in a month.
ManualFee(s) ==
  [NewFee EXCEPT !.student = s, !.feeType = "hostel", !.amount = 5000,
                 !.dueDate = 31, !.createdAt = 1]

InitStay ==
  /\ rooms = [r \in Rooms |-> NewRoom(r, FlatPrices[r])]
  /\ fees = [s \in Students |-> ManualFee(s)]
  /\ students = [s \in Students |-> WithPendingCache(NewStudent, fees, s)]
  /\ ledger = <<>>
  /\ today = 1
  /\ locks = [s \in Students |-> NoLock]
  /\ timers = [s \in Students |-> {}]
  /\ calls = [c \in Calls |-> IdleCall]
  /\ last = NoResponse

NextStay ==
  \/ \E r \in Rooms, s \in Students, b \in BedInputs : AllocateRoom(r, s, b)
  \/ \E r \in Rooms, s \in Students : DeallocateRoom(r, s)
  \/ \E s \in Students, r \in Rooms, b \in BedInputs, late \in BOOLEAN :
       ShiftRoom(s, r, b, late)
  \/ \E f \in DOMAIN fees, d \in CheckOutDates : CheckOut(f, d)

SpecStay == InitStay /\ [][NextStay]_vars

\* ------------------------- the allocation engine with the room maintenance
NextRoom ==
  \/ \E r \in Rooms, s \in Students, b \in BedInputs : AllocateRoom(r, s, b)
  \/ \E r \in Rooms, s \in Students : DeallocateRoom(r, s)
  \/ \E s \in Students, r \in Rooms, b \in BedInputs, late \in BOOLEAN :
       ShiftRoom(s, r, b, late)
  \/ \E f \in DOMAIN fees, d \in CheckOutDates : CheckOut(f, d)
  \/ \E r \in Rooms, st \in StatusInputs : UpdateRoom(r, st)
  \/ \E r \in Rooms : FixRoomStatus(r)

SpecRoom == InitStay /\ [][NextRoom]_vars

\* --------------------------------------------------- the package lock
\* Student 1 has bed A of room 1; student 2 has no room.
InitPackage ==
  /\ rooms = [r \in Rooms |->
                IF r = 1 THEN TakeBed(1, NewRoom(1, MixedPrices[1]), 1, 1)
                ELSE NewRoom(r, MixedPrices[r])]
  /\ students = [s \in Students |->
                   IF s = 1 THEN [NewStudent EXCEPT !.roomNo = 1] ELSE NewStudent]
  /\ fees = <<>>
  /\ ledger = <<>>
  /\ today = 1
  /\ locks = [s \in Students |-> NoLock]
  /\ timers = [s \in Students |-> {}]
  /\ calls = [c \in Calls |-> IdleCall]
  /\ last = NoResponse

\* the students the office keeps a ledger for
Residents == {1}

\* a request body: package type, due date, and the collection plan
Body(packageType, dueDate, deposit) ==
  [packageType |-> packageType, dueDate |-> dueDate,
   hostelAmount |-> 0, messAmount |-> 0, depositAmount |-> deposit]

LockBodies == {Body("5months", d, 0) : d \in {NoDate, InvalidDate}}

NextLock ==
  \/ \E c \in Calls, s \in Students, body \in LockBodies : GenBegin(c, s, body)
  \/ \E c \in Calls, fail \in BOOLEAN : GenRun(c, fail, TRUE)
  \/ \E s \in Students : TimerFire(s)
  \/ Tick

SpecLock == InitPackage /\ [][NextLock]_vars

\* The clock of the process goes on and a timer that is due runs: the event
\* loop of the server.  Nothing obliges a request to arrive or to finish.
SpecLockLive ==
  /\ InitPackage
  /\ [][NextLock]_vars
  /\ WF_vars(Tick)
  /\ \A s \in Students : WF_vars(TimerFire(s))

\* ------------------------------------------------ the deposit of a package
\* One client: requests for a student one at a time, with payments and
\* edits of the resident's ledger in between.
DepositBodies ==
  {Body("5months", d, a) : d \in {NoDate, 31, InvalidDate}, a \in {0, 5000}}

NextDeposit ==
  \/ \E s \in Students, body \in DepositBodies : GeneratePackage(s, body, TRUE)
  \/ \E f \in DOMAIN fees : PayFee(f, "cash", "T1")
  \/ \E f \in DOMAIN fees, st \in FeeStatusInputs : UpdateFee(f, [status |-> st])
  \/ \E s \in Residents, a \in AmountInputs, acc \in Accounts,
        d \in DescriptionInputs, k \in ComponentInputs :
       AddManualLedgerEntry(s, a, acc, d, k)
  \/ \E s \in Residents : DeleteManualLedgerEntries(s)

SpecDeposit == InitPackage /\ [][NextDeposit]_vars

\* ------------------------------------------------------ the billing engine
\* Student 1 has bed A of room 1; student 2 has no room.  Every billing
\* mutation of one day, with room transfers and checkouts.
BillingBodies == {Body("5months", NoDate, 0)}

NextBilling ==
  \/ \E s \in Residents, a \in FeeAmountInputs, k \in FeeTypeInputs,
          b \in FeeBedInputs :
       CreateFee(s, a, MaxDay, k, b)
  \/ \E f \in DOMAIN fees, body \in UpdateBodies : UpdateFee(f, body)
  \/ \E f \in DOMAIN fees, m \in PaymentMethodInputs, x \in TransactionIdInputs :
       PayFee(f, m, x)
  \/ \E f \in DOMAIN fees : DeleteFee(f)
  \/ \E f \in DOMAIN fees, d \in CheckOutDates : CheckOut(f, d)
  \/ \E s \in Students, body \in BillingBodies : GeneratePackage(s, body, TRUE)
  \/ \E s \in Residents, r \in Rooms : ShiftRoom(s, r, "A", TRUE)

SpecBilling == InitPackage /\ [][NextBilling]_vars

\* ---------------------------------------------------- rooms with residents
\* The students are in rooms, each on the first free bed of the room, as
\* allocateRoom without a bed label places them.
Placements ==
  {p \in [Students -> Rooms \cup {NoRoom}] :
     \A r \in Rooms : Cardinality({s \in Students : p[s] = r}) <= Capacity(r)}

FirstFreeBed(room) == MinOf({i \in DOMAIN room.beds : ~room.beds[i].isOccupied})

RECURSIVE Place(_, _, _)
Place(rs, p, n) ==
  IF n = 0 THEN rs
  ELSE LET rs1 == Place(rs, p, n - 1)
       IN IF p[n] = NoRoom THEN rs1
          ELSE [rs1 EXCEPT ![p[n]] = TakeBed(p[n], @, n, FirstFreeBed(@))]

InitPlaced(prices, placements) ==
  /\ \E p \in placements :
       /\ rooms = Place([r \in Rooms |-> NewRoom(r, prices[r])], p, NumStudents)
       /\ students = [s \in Students |-> [NewStudent EXCEPT !.roomNo = p[s]]]
  /\ fees = <<>>
  /\ ledger = <<>>
  /\ today = 1
  /\ locks = [s \in Students |-> NoLock]
  /\ timers = [s \in Students |-> {}]
  /\ calls = [c \in Calls |-> IdleCall]
  /\ last = NoResponse

\* --------------------------------------------------------- stay and checkOut
\* Room 1 at 10000 a month, mess 3000; packages of five months and of one
\* month; payments, days passing, checkouts and new allocations.
ScenarioPrices ==
  [r \in Rooms |-> IF r = 1 THEN [rent |-> 10000, messChargePerMonth |-> 3000]
                           ELSE [rent |-> 5000, messChargePerMonth |-> 3000]]

CheckOutBodies == {Body(k, NoDate, 0) : k \in PackageTypes}

\* student 1 is in room 1, student 2 has no room
InitCheckOut == InitPlaced(ScenarioPrices, {p \in Placements : p[1] = 1 /\ p[2] = NoRoom})

NextCheckOut ==
  \/ \E s \in Students, body \in CheckOutBodies : GeneratePackage(s, body, TRUE)
  \/ \E f \in DOMAIN fees : PayFee(f, "cash", "T1")
  \/ \E f \in DOMAIN fees, d \in CheckOutDates : CheckOut(f, d)
  \/ \E r \in Rooms, s \in Residents : AllocateRoom(r, s, "A")
  \/ AdvanceDay

SpecCheckOut == InitCheckOut /\ [][NextCheckOut]_vars

\* ------------------------------------------------------------ room transfers
\* Rooms of different rent and mess charge; packages, payments, days passing
\* and transfers.
InitTransfer == InitPlaced(MixedPrices, Placements)

NextTransfer ==
  \/ \E s \in Students, body \in CheckOutBodies : GeneratePackage(s, body, TRUE)
  \/ \E f \in DOMAIN fees : PayFee(f, "cash", "T1")
  \/ \E s \in Students, r \in Rooms, b \in BedInputs, late \in BOOLEAN :
       ShiftRoom(s, r, b, late)
  \/ AdvanceDay

SpecTransfer == InitTransfer /\ [][NextTransfer]_vars

\* ------------------------------------------------------- the student ledger
\* Student 1 in room 1: packages, payments of fees, manual entries (mess
\* payments, deposits, and descriptions typed with the marker of a room
\* shift), checkouts, days passing, and the ledger being read.
ShiftMarker(oldRoom, newRoom) ==
  <<HouseEmoji, "Room", "Shifted:", oldRoom, "->", newRoom>>

\* the account and the description of the manual entries
LedgerInputs ==
  {<<"HUF", <<>>>>, <<"Youstel", <<"Deposit">>>>,
   <<"Youstel", ShiftMarker("R1", "R2")>>}

NextLedger ==
  \/ \E s \in Students, body \in CheckOutBodies : GeneratePackage(s, body, TRUE)
  \/ \E f \in DOMAIN fees : PayFee(f, "cash", "T1")
  \/ \E s \in Residents, in \in LedgerInputs :
       AddManualLedgerEntry(s, 5000, in[1], in[2], "")
  \/ \E f \in DOMAIN fees : CheckOut(f, NoDate)
  \/ AdvanceDay
  \/ \E s \in Residents : GetLedger(s)

SpecLedger == InitCheckOut /\ [][NextLedger]_vars

\* ------------------------------------------------------------ deleteRoom
\* what Room.findById returns for a room that was deleted
DeletedRoom == [deleted |-> TRUE]

DeleteRoomRejection(r) ==
  IF rooms[r] = DeletedRoom THEN "Room not found"
  ELSE IF rooms[r].occupied > 0 THEN "Cannot delete room with allocated students"
  ELSE ""

DeleteRoom(r) ==
  /\ rooms' = IF DeleteRoomRejection(r) = "" THEN [rooms EXCEPT ![r] = DeletedRoom]
              ELSE rooms
  /\ last' = Response("deleteRoom", r, NoStudent, [ok |-> DeleteRoomRejection(r) = ""])
  /\ UNCHANGED <<students, fees, ledger, today, lockVars>>

\* The allocation requests of this specification name rooms that exist, for
\* students whose room, if they have one, exists.
RoomsPresent(r, s) ==
  /\ rooms[r] # DeletedRoom
  /\ students[s].roomNo # NoRoom => rooms[students[s].roomNo] # DeletedRoom

NextDelete ==
  \/ \E r \in Rooms, s \in Students, b \in BedInputs :
       RoomsPresent(r, s) /\ AllocateRoom(r, s, b)
  \/ \E r \in Rooms, s \in Students : RoomsPresent(r, s) /\ DeallocateRoom(r, s)
  \/ \E r \in Rooms : DeleteRoom(r)

SpecDelete == InitStore /\ [][NextDelete]_vars

\* ------------------------------------------- concurrent allocateRoom requests
\* allocateRoom as the event loop runs it: the handler gives way at every
\* await, so the reads and the saves of two requests interleave.  A request
\* is a slot of calls; body holds its locals: the room and the bed asked for,
\* the room document it read (doc), the student's room as it read it
\* (existing), the document of that room (current), and its answer.
\* Both saves of a room set the whole beds array, so the update carries the
\* version of the document as it was read (the default versionKey of the
\* schema): a document another request has saved since is stale, and its
\* save throws VersionError, which the handler answers with 500.
AllocCall(pc, s, body) == [pc |-> pc, student |-> s, age |-> 0, body |-> body]

AllocDone(c, code, bed) ==
  AllocCall("done", calls[c].student,
            [room |-> calls[c].body.room, code |-> code, bed |-> bed])

\* the slots after request c has saved room r: the copies of the document
\* that the other requests hold are stale
AfterSave(cs, c, r) ==
  [d \in Calls |->
     IF d = c \/ cs[d].pc \in {"idle", "done"} THEN cs[d]
     ELSE [cs[d] EXCEPT
             !.body = [@ EXCEPT
                         !.docStale = @ \/ cs[d].body.room = r,
                         !.currentStale = @ \/ cs[d].body.existing = r]]]

\* Room.findById(req.params.id)
AllocBegin(c, r, s, bedLabel) ==
  /\ calls[c].pc = "idle"
  /\ calls' = [calls EXCEPT ![c] =
                 AllocCall("room", s,
                           [room |-> r, bedLabel |-> bedLabel, doc |-> rooms[r],
                            docStale |-> FALSE, existing |-> NoRoom,
                            current |-> rooms[r], currentStale |-> FALSE])]
  /\ UNCHANGED <<rooms, students, fees, ledger, today, locks, timers, last>>

\* Student.findById(studentId): existingRoomId
AllocReadStudent(c) ==
  /\ calls[c].pc = "room"
  /\ calls' = [calls EXCEPT
                 ![c].pc = IF students[calls[c].student].roomNo # NoRoom
                             THEN "student" ELSE "ready",
                 ![c].body.existing = students[calls[c].student].roomNo]
  /\ UNCHANGED <<rooms, students, fees, ledger, today, locks, timers, last>>

\* Room.findById(existingRoomId): currentRoom
AllocReadCurrent(c) ==
  /\ calls[c].pc = "student"
  /\ calls' = [calls EXCEPT ![c].pc = "current",
                            ![c].body.current = rooms[calls[c].body.existing],
                            ![c].body.currentStale = FALSE]
  /\ UNCHANGED <<rooms, students, fees, ledger, today, locks, timers, last>>

\* "free previous bed" and currentRoom.save(); the saved document is the
\* room of the request when the student asks for the room it is in
AllocFree(c) ==
  /\ calls[c].pc = "current"
  /\ LET body == calls[c].body
         existing == body.existing
         saved == FreePrevious(existing, body.current, calls[c].student)
     IN IF body.currentStale
          THEN /\ calls' = [calls EXCEPT ![c] = AllocDone(c, 500, "")]
               /\ UNCHANGED rooms
          ELSE /\ rooms' = [rooms EXCEPT ![existing] = saved]
               /\ calls' = AfterSave(
                             [calls EXCEPT
                                ![c].pc = "ready",
                                ![c].body.doc = IF existing = body.room THEN saved ELSE @,
                                ![c].body.docStale = IF existing = body.room THEN FALSE ELSE @],
                             c, existing)
  /\ UNCHANGED <<students, fees, ledger, today, locks, timers, last>>

\* the checks ("Room is full", the bed), "Allocate room and bed", room.save()
AllocSave(c) ==
  /\ calls[c].pc = "ready"
  /\ LET body == calls[c].body
         r == body.room
         b == FindBed(body.doc, body.bedLabel)
         full == /\ body.doc.occupied >= Capacity(r)
                 /\ body.existing = NoRoom \/ body.existing # r
     IN IF full \/ b = 0
          THEN /\ calls' = [calls EXCEPT ![c] = AllocDone(c, 400, "")]
               /\ UNCHANGED rooms
        ELSE IF body.docStale
          THEN /\ calls' = [calls EXCEPT ![c] = AllocDone(c, 500, "")]
               /\ UNCHANGED rooms
        ELSE /\ rooms' = [rooms EXCEPT ![r] = TakeBed(r, body.doc, calls[c].student, b)]
             /\ calls' = AfterSave(
                           [calls EXCEPT ![c] = AllocCall("saved", calls[c].student,
                                                  [room |-> r, code |-> 0, bed |-> BedLabels[b]])],
                           c, r)
  /\ UNCHANGED <<students, fees, ledger, today, locks, timers, last>>

\* student.roomNo = room._id, student.save(), and the answer with the bed
AllocFinish(c) ==
  /\ calls[c].pc = "saved"
  /\ students' = [students EXCEPT ![calls[c].student].roomNo = calls[c].body.room]
  /\ calls' = [calls EXCEPT ![c] = AllocDone(c, 200, calls[c].body.bed)]
  /\ UNCHANGED <<rooms, fees, ledger, today, locks, timers, last>>

\* Two requests, each for any student, room and bed, from every placement of
\* the students.
RaceBeds == {"A", "B"}

NextRace ==
  \/ \E c \in Calls, r \in Rooms, s \in Students, b \in RaceBeds : AllocBegin(c, r, s, b)
  \/ \E c \in Calls : AllocReadStudent(c)
  \/ \E c \in Calls : AllocReadCurrent(c)
  \/ \E c \in Calls : AllocFree(c)
  \/ \E c \in Calls : AllocSave(c)
  \/ \E c \in Calls : AllocFinish(c)

SpecRace == InitTransfer /\ [][NextRace]_vars

\* ===================================================== allocation claims
\* a step of one of the allocation operations
AllocationStep ==
  \/ \E r \in Rooms, s \in Students, b \in BedInputs : AllocateRoom(r, s, b)
  \/ \E r \in Rooms, s \in Students : DeallocateRoom(r, s)
  \/ \E s \in Students, r \in Rooms, b \in BedInputs, late \in BOOLEAN :
       ShiftRoom(s, r, b, late)
  \/ \E f \in DOMAIN fees, d \in CheckOutDates : CheckOut(f, d)

BedsOf(r, s) == {i \in DOMAIN rooms[r].beds : rooms[r].beds[i].studentId = s}

\* C1: after any sequence of allocateRoom, deallocateRoom and shiftRoom from
\* rooms whose beds are all free, every room has occupied = number of
\* occupied beds = length of its students list.
OccupancyMatchesBeds ==
  \A r \in Rooms :
    /\ rooms[r].occupied = OccupiedBeds(rooms[r].beds)
    /\ rooms[r].occupied = Len(rooms[r].students)

\* C2: in every state reached by allocateRoom, deallocateRoom, shiftRoom and
\* checkOut, a student's roomNo is room R if and only if the student is in
\* R's students list, exactly one bed of R carries the student and no bed of
\* another room does.
RoomNoMatchesRoom ==
  \A s \in Students, r \in Rooms :
    (students[s].roomNo = r)
      <=> /\ InSeq(rooms[r].students, s)
          /\ Cardinality(BedsOf(r, s)) = 1
          /\ \A q \in Rooms \ {r} : BedsOf(q, s) = {}

\* C3: allocateRoom fails and leaves every room and every student unchanged
\* when the room is at capacity, when the student already has a room, or when
\* the requested bed is occupied.
AllocateRejectsCleanly ==
  [][\A r \in Rooms, s \in Students, b \in BedInputs :
       (/\ AllocateRoom(r, s, b)
        /\ \/ rooms[r].occupied >= Capacity(r)
           \/ students[s].roomNo # NoRoom
           \/ \E i \in DOMAIN rooms[r].beds :
                MatchesLabel(i, b) /\ rooms[r].beds[i].isOccupied)
       => (/\ ~AllocateResult(r, s, b).ok
           /\ rooms' = rooms
           /\ students' = students)]_vars

\* C4: a deallocateRoom that repeats the request before it (same room, same
\* student) leaves every room and every student as the first call left them,
\* and no room's occupied count is ever negative.
DeallocateTwiceIsNoOp ==
  /\ [](\A r \in Rooms : rooms[r].occupied >= 0)
  /\ [][\A r \in Rooms, s \in Students :
          (/\ last.op = "deallocateRoom" /\ last.room = r /\ last.student = s
           /\ DeallocateRoom(r, s))
          => (rooms' = rooms /\ students' = students)]_vars

\* a second deallocateRoom for the same room and student has been answered
DeallocatedTwice == last.op = "deallocateRoom" /\ last.rep

\* C5: no allocation operation (allocateRoom, deallocateRoom, shiftRoom,
\* checkOut, with the save hook they run) changes the status of a room whose
\* status is 'maintenance'.
MaintenanceIsKept ==
  [][\A r \in Rooms :
       (rooms[r].status = "maintenance" /\ AllocationStep)
         => rooms'[r].status = "maintenance"]_vars

\* C6: every room an allocation operation has written, and whose status is
\* not maintenance or unavailable, has status 'occupied' exactly when
\* occupied >= capacity, and 'available' otherwise.
StatusFollowsOccupancy ==
  [][\A r \in Rooms :
       (/\ AllocationStep
        /\ rooms'[r] # rooms[r]
        /\ rooms'[r].status \notin {"maintenance", "unavailable"})
       => (rooms'[r].status =
             IF rooms'[r].occupied >= Capacity(r) THEN "occupied" ELSE "available")]_vars

\* C7: from every room state, the room fixRoomStatus leaves has occupied =
\* number of occupied beds = length of the students list, every bed that was
\* occupied keeps its student, and fixing it again changes nothing.
FixRepairsRoom ==
  \A r \in Rooms :
    LET fixed == FixedRoom(r, rooms[r]) IN
    /\ fixed.occupied = OccupiedBeds(fixed.beds)
    /\ fixed.occupied = Len(fixed.students)
    /\ \A i \in DOMAIN rooms[r].beds :
         rooms[r].beds[i].isOccupied => fixed.beds[i] = rooms[r].beds[i]
    /\ FixedRoom(r, fixed) = fixed

\* ======================================================== package claims
\* C8: while a request for a student that took the lock less than the lock
\* window ago is still running, no other request for that student gets past
\* the lock check.
LockExcludes ==
  [][\A c \in Calls, s \in Students :
       (/\ calls[c].pc = "idle"
        /\ calls'[c].pc = "running"
        /\ calls'[c].student = s)
       => ~\E d \in Calls \ {c} :
             /\ calls[d].pc = "running"
             /\ calls[d].student = s
             /\ calls[d].age < LockWindow]_vars

DepositFeesOf(s) ==
  {i \in DOMAIN fees : /\ fees[i].student = s
                       /\ fees[i].source = "checklist_auto"
                       /\ fees[i].depositAmount > 0}

\* C9: at most one fee created by generatePackage for a student carries a
\* deposit, whatever the status of the earlier package.
DepositChargedOnce ==
  \A s \in Students : Cardinality(DepositFeesOf(s)) <= 1

\* the deposit-tagged Youstel payments of the ledger, refunds counted negative
RECURSIVE NetDepositPayments(_, _)
NetDepositPayments(s, n) ==
  IF n = 0 THEN 0
  ELSE LET e == ledger[n]
           tagged == /\ e.student = s /\ e.account = "Youstel" /\ e.type = "Payment"
                     /\ Includes(e.description, "deposit")
           refund == Includes(e.description, "refund")
                     \/ IncludesMarkInactive(e.description)
       IN NetDepositPayments(s, n - 1)
          + (IF ~tagged THEN 0 ELSE IF refund THEN 0 - e.amount ELSE e.amount)

DepositSettled(s) ==
  \/ \E i \in DepositFeesOf(s) : fees[i].status \in {"paid", "partial"}
  \/ 2 * NetDepositPayments(s, Len(ledger)) >= 10000

\* C10: the fee generatePackage creates has depositAmount 0 when a prior
\* package fee of the student with a deposit is paid or partial, or when the
\* net deposit payments of the ledger reach half of 10000; otherwise 10000.
DepositDecision ==
  [][(/\ Len(fees') = Len(fees) + 1
      /\ fees'[Len(fees')].source = "checklist_auto")
     => fees'[Len(fees')].depositAmount =
          (IF DepositSettled(fees'[Len(fees')].student) THEN 0 ELSE 10000)]_vars

\* a second package without deposit, after the first package was paid
DepositSkippedAfterPaid ==
  \E i, j \in DOMAIN fees :
    /\ i < j
    /\ fees[i].student = fees[j].student
    /\ fees[i].source = "checklist_auto" /\ fees[j].source = "checklist_auto"
    /\ fees[i].depositAmount = 10000 /\ fees[i].status = "paid"
    /\ fees[j].depositAmount = 0
    /\ NetDepositPayments(fees[j].student, Len(ledger)) = 0

\* ======================================================== billing claims
\* C11: payFee leaves the fee as it is when the fee is already paid or has
\* no student; otherwise an accepted payment sets status 'paid' and stamps
\* paidDate.  So a second payment never overwrites the paidDate, method or
\* transactionId of the first.
PayFeeRefusesSettled ==
  [][\A f \in DOMAIN fees, m \in PaymentMethodInputs, x \in TransactionIdInputs :
       PayFee(f, m, x) =>
         IF fees[f].status = "paid" \/ fees[f].student = NoStudent
           THEN fees' = fees
           ELSE PayFeeRejection(f, m, x) = ""
                  => fees'[f].status = "paid" /\ fees'[f].paidDate = today]_vars

\* C12: after every billing mutation the pending-fee cache of every student
\* is the recomputation from the fees: hasPendingFees iff the student has a
\* pending or overdue fee, totalPendingAmount the sum of their amounts.
CacheMatchesFees ==
  \A s \in Students :
    /\ students[s].hasPendingFees =
         (\E i \in DOMAIN fees : /\ fees[i].student = s
                                 /\ fees[i].status \in {"pending", "overdue"})
    /\ students[s].totalPendingAmount = SumAmounts(fees, PendingFeesIn(fees, s))

\* C13: every fee with status 'partial' has paidAmount + remainingBalance =
\* amount.
PartialBalances ==
  \A i \in DOMAIN fees :
    fees[i].status = "partial"
      => fees[i].paidAmount + fees[i].remainingBalance = fees[i].amount

\* ======================================================= checkout claims
\* the date of a checkout request, and the days of the stay it ends
CheckOutDay(d) == IF d # NoDate THEN d ELSE today

ElapsedDays(fee, d) ==
  CheckOutDay(d) - (IF fee.checkInDate # NoDate THEN fee.checkInDate
                    ELSE IF fee.paidDate # NoDate THEN fee.paidDate
                    ELSE fee.createdAt)

\* a checkOut request that the handler accepts
CheckOutAccepted(f, d) ==
  /\ CheckOutRejection(f) = ""
  /\ fees'[f].status = "checked_out"
  /\ CheckOut(f, d)

\* C14: a checkout after fewer days than the package has (months x 30)
\* refunds rent x unused / expected + mess x unused / expected + deposit,
\* with unused = expected - elapsed; and a refund above zero creates exactly
\* one further fee, of status 'refunded' and of the refund's amount.
RefundIsProrated ==
  [][\A f \in DOMAIN fees, d \in CheckOutDates :
       CheckOutAccepted(f, d) =>
         LET fee == fees[f]
             expected == PackageMonths(IF fee.packageType # "" THEN fee.packageType
                                       ELSE "5months") * 30
             unused == expected - ElapsedDays(fee, d)
             refund == fees'[f].refundAmount
         IN /\ ElapsedDays(fee, d) < expected
                 => refund = (fee.rentAmount * unused) \div expected
                             + (fee.messAmount * unused) \div expected
                             + fee.depositAmount
            /\ refund > 0
                 => /\ Len(fees') = Len(fees) + 1
                    /\ fees'[Len(fees')].status = "refunded"
                    /\ fees'[Len(fees')].amount = refund
                    /\ fees'[Len(fees')].student = fee.student]_vars

\* day 60 of a five-month package at rent 10000, mess 3000, deposit 10000:
\* the refund is 49000, with its refund fee
RefundOfDaySixty ==
  \E i, j \in DOMAIN fees :
    /\ fees[i].status = "checked_out" /\ fees[i].packageType = "5months"
    /\ fees[i].rentAmount = 50000 /\ fees[i].messAmount = 15000
    /\ fees[i].depositAmount = 10000
    /\ fees[i].checkOutDate - fees[i].createdAt = 60
    /\ fees[i].refundAmount = 49000
    /\ fees[j].status = "refunded" /\ fees[j].amount = 49000

\* C15: every accepted checkOut of a fee refunds at least the fee's deposit,
\* also when the days of the stay reach or pass the days of the package.
DepositAlwaysRefunded ==
  [][\A f \in DOMAIN fees, d \in CheckOutDates :
       CheckOutAccepted(f, d) => fees'[f].refundAmount >= fees[f].depositAmount]_vars

\* C16: once checkOut has been accepted for a fee, the fee stays marked with
\* its checkout date whatever payment follows, and every later checkOut of
\* that fee is rejected: no fee is created, no room and no student changes.
CheckOutOnlyOnce ==
  [][/\ \A f \in DOMAIN fees, d \in CheckOutDates :
          CheckOutAccepted(f, d) => fees'[f].checkOutDate # NoDate
     /\ \A f \in DOMAIN fees :
          fees[f].checkOutDate # NoDate
            => f \in DOMAIN fees' /\ fees'[f].checkOutDate = fees[f].checkOutDate
     /\ \A f \in DOMAIN fees, d \in CheckOutDates :
          (fees[f].checkOutDate # NoDate /\ CheckOut(f, d))
            => /\ CheckOutRejection(f) # ""
               /\ fees' = fees /\ rooms' = rooms /\ students' = students]_vars

\* a fee that was checked out and paid afterwards, its student in a room
\* again: only the checkout date stands against a second checkout
PaidAfterCheckOut ==
  \E f \in DOMAIN fees :
    /\ fees[f].checkOutDate # NoDate
    /\ fees[f].status = "paid"
    /\ fees[f].paidDate >= fees[f].checkOutDate
    /\ students[fees[f].student].roomNo # NoRoom

\* C17: after an accepted checkOut no bed of the student's room carries the
\* student, the student is not in the room's students list, the room's
\* occupied is the length of that list, the student has no room and is
\* 'inactive', and the fee is 'checked_out'.
CheckOutReleases ==
  [][\A f \in DOMAIN fees, d \in CheckOutDates :
       CheckOutAccepted(f, d) =>
         LET s == fees[f].student
             r == students[s].roomNo
         IN /\ \A i \in DOMAIN rooms'[r].beds : rooms'[r].beds[i].studentId # s
            /\ ~InSeq(rooms'[r].students, s)
            /\ rooms'[r].occupied = Len(rooms'[r].students)
            /\ students'[s].roomNo = NoRoom
            /\ students'[s].status = "inactive"
            /\ fees'[f].status = "checked_out"]_vars

\* a student who has checked out of a shared room
CheckedOut ==
  \E f \in DOMAIN fees :
    /\ fees[f].status = "checked_out"
    /\ students[fees[f].student].roomNo = NoRoom
    /\ students[fees[f].student].status = "inactive"
    /\ \A r \in Rooms : ~InSeq(rooms[r].students, fees[f].student)

\* ======================================================= transfer claims
\* a transfer request that passes the handler's tests, and one that the
\* handler also answers with success
ShiftAccepted(s, new, bedLabel, late) ==
  /\ ShiftRejection(s, new, bedLabel) = ""
  /\ students'[s].roomNo = new
  /\ ShiftRoom(s, new, bedLabel, late)

ShiftSucceeded(s, new, bedLabel, late) ==
  ShiftAccepted(s, new, bedLabel, late) /\ ~ShiftThrows(s, students[s].roomNo, new)

\* the ledger entries that the step has added
AddedEntries == SubSeq(ledger', Len(ledger) + 1, Len(ledger'))

\* an adjustment of the given account is on record among the added entries:
\* 'Other' for a charge, 'Payment' for a refund, of the absolute amount
AdjustmentRecorded(account, adjustment) ==
  adjustment # 0
    => \E i \in DOMAIN AddedEntries :
         /\ AddedEntries[i].account = account
         /\ AddedEntries[i].amount = Abs(adjustment)
         /\ AddedEntries[i].type = (IF adjustment > 0 THEN "Other" ELSE "Payment")

\* C18: a transfer computes rentAdjustment = (new.rent - old.rent) x
\* remainingMonths and messAdjustment likewise, and records each positive
\* adjustment as an 'Other' ledger entry and each negative one as a 'Payment'
\* entry of the absolute amount, also when the two have opposite signs.
AdjustmentsTypedBySign ==
  [][\A s \in Students, r \in Rooms, b \in BedInputs, late \in BOOLEAN :
       ShiftAccepted(s, r, b, late) =>
         LET old == students[s].roomNo
             months == RemainingMonths(s)
         IN /\ AdjustmentRecorded("Youstel", (rooms[r].rent - rooms[old].rent) * months)
            /\ AdjustmentRecorded("HUF",
                 (MessOf(rooms[r]) - MessOf(rooms[old])) * months)]_vars

TransferLeavesOneNote ==
  [][\A s \in Students, r \in Rooms, b \in BedInputs, late \in BOOLEAN :
       ShiftAccepted(s, r, b, late) =>
         Cardinality({i \in DOMAIN AddedEntries :
                        /\ AddedEntries[i].amount = 0
                        /\ AddedEntries[i].type = "Other"
                        /\ AddedEntries[i].student = s}) = 1]_vars

\* a transfer on record with its note and with an adjustment beside it
NoteBesideAdjustment ==
  \E i, j \in DOMAIN ledger :
    /\ ledger[i].description = ShiftedNote /\ ledger[i].amount = 0
    /\ ledger[j].student = ledger[i].student /\ ledger[j].amount > 0
    /\ ledger[j].description # ledger[i].description
    /\ ledger[j].description[1] = "Room"

\* C28: every accepted checkOut, whatever date not in the future it carries,
\* computes a refund between zero and the fee's rent, mess and deposit
\* together, also when the date lies before the fee's check-in.
RefundWithinPackage ==
  [][\A f \in DOMAIN fees, d \in CheckOutDates :
       CheckOutAccepted(f, d) =>
         /\ fees'[f].refundAmount >= 0
         /\ fees'[f].refundAmount
              <= fees[f].rentAmount + fees[f].messAmount + fees[f].depositAmount]_vars

\* ======================================================= deleteRoom claim
\* C25: deleteRoom is rejected, and the room stays, in every reachable state
\* in which a bed of the room is occupied or a student's roomNo names the room.
OccupiedRoomIsKept ==
  [][\A r \in Rooms :
       (/\ rooms[r] # DeletedRoom
        /\ \/ \E i \in DOMAIN rooms[r].beds : rooms[r].beds[i].isOccupied
           \/ \E s \in Students : students[s].roomNo = r
        /\ DeleteRoom(r))
         => rooms'[r] = rooms[r]]_vars

\* ========================================================== lock claims
\* C26: once a generatePackage call that took the lock has ended (its finally
\* block has set the release timer), the lock entry of the student is
\* eventually removed, so that a later call is accepted.
LockIsReleased ==
  \A s \in Students : (timers[s] # {}) ~> (locks[s] = NoLock)

\* a package was created, the timer has run and the lock is gone
ReleasedAfterPackage ==
  \E s \in Students :
    /\ PackageFeesOf(s) # {}
    /\ locks[s] = NoLock /\ timers[s] = {}
    /\ \A c \in Calls : calls[c].pc = "idle"

\* C27: the manual ledger entries a student had before a successful
\* generatePackage call all exist after it.
PackageKeepsLedger ==
  [][\A s \in Students, body \in DepositBodies :
       (Len(fees') > Len(fees) /\ GeneratePackage(s, body, TRUE))
         => \A i \in DOMAIN ledger :
              ledger[i].student = s
                => \E j \in DOMAIN ledger' : ledger'[j] = ledger[i]]_vars

\* C22: generatePackage with a five-month package followed by getLedger shows,
\* for the new fee, exactly five rent lines, five mess lines and one deposit
\* line (the deposit line only when a deposit was charged), and the debits of
\* these lines sum to the amount of the fee.
PackageExpandsByMonth ==
  [][\A s \in Students, body \in DepositBodies :
       (Len(fees') > Len(fees) /\ GeneratePackage(s, body, TRUE)) =>
         LET f == Len(fees')
             lines == SelectSeq(CompleteLedger(fees', ledger', s, students'[s]),
                                LAMBDA l : l.type = "Fee" /\ l.feeId = f)
             count(c) == Len(SelectSeq(lines, LAMBDA l : l.component = c))
             debits == [k \in 1..Len(lines) |-> lines[k].debit]
         IN /\ body.packageType = "5months"
            /\ count("Hostel (Youstel)") = 5
            /\ count("Mess (HUF)") = 5
            /\ count("Deposit (Youstel)") = (IF fees'[f].depositAmount > 0 THEN 1 ELSE 0)
            /\ Len(lines) = 10 + count("Deposit (Youstel)")
            /\ SumSeq(debits) = fees'[f].amount]_vars

\* a five-month package with its deposit is in the ledger as eleven lines
ExpandedWithDeposit ==
  \E f \in DOMAIN fees :
    /\ fees[f].packageType = "5months" /\ fees[f].depositAmount > 0
    /\ Len(SelectSeq(CompleteLedger(fees, ledger, fees[f].student,
                                    students[fees[f].student]),
                     LAMBDA l : l.type = "Fee" /\ l.feeId = f)) = 11

\* C21: for a student whose status is 'inactive', getLedger answers with
\* sessions that all have status 'completed' (none 'active'), whatever the
\* balance and the stored status of the fees, checked_out included; and with
\* two fees loaded it returns both sessions.
InactiveLedgerIsHistory ==
  \A s \in Residents :
    students[s].status = "inactive" =>
      LET res == GetStudentLedger(fees, ledger, students, s, today)
      IN /\ res.code = 200
         /\ \A k \in DOMAIN res.sessions : res.sessions[k].status = "completed"
         /\ Len(LoadedFees(fees, s)) = 2 => Len(res.sessions) = 2

\* the status a session has by its balance: 'paid' when nothing is due,
\* 'partial' when part of the total is due, 'pending' or 'overdue' otherwise
StatusByBalance(session) ==
  IF session.totalDue = 0 THEN {"paid"}
  ELSE IF session.totalDue < session.totalAmount THEN {"partial"}
  ELSE {"pending", "overdue"}

\* C24: for a student who is active and has fees, the status of every session
\* getLedger returns is the one its balance gives ('paid' when nothing is due,
\* 'partial' when part is due, 'pending' or 'overdue' otherwise), whatever
\* status the fee has in the store.
ActiveStatusFollowsBalance ==
  \A s \in Residents :
    (students[s].status = "active" /\ LoadedFees(fees, s) # <<>>) =>
      LET res == GetStudentLedger(fees, ledger, students, s, today)
      IN /\ res.code = 200
         /\ \A k \in DOMAIN res.sessions :
              res.sessions[k].status \in StatusByBalance(res.sessions[k])

\* the number of times a line is among the payments of the sessions: a manual
\* entry is known by its index, a payment line of a fee by fee and account
Appearances(sessions, line) ==
  SumSeq([k \in 1..Len(sessions) |->
            Len(SelectSeq(sessions[k].payments,
                          LAMBDA p : /\ p.entry = line.entry
                                     /\ p.feeId = line.feeId
                                     /\ p.account = line.account))])

\* C23: in the answer of getLedger every manual ledger entry of the student
\* and every payment line of a fee is among the payments of exactly one
\* session, whatever the fees, the room-shift markers and the status of the
\* student.
EveryPaymentInOneSession ==
  \A s \in Residents :
    LET res == GetStudentLedger(fees, ledger, students, s, today)
    IN /\ res.code = 200
       /\ \A k \in DOMAIN res.ledger :
            (res.ledger[k].entry # 0 \/ res.ledger[k].type = "Payment") =>
              Appearances(res.sessions, res.ledger[k]) = 1

\* C30: every fee getLedger loads has its part in the sessions it returns,
\* also with several package fees and a room-shift marker in the manual
\* ledger: every loaded fee has its session, except that the first is
\* replaced by the sessions of its rooms when there is a marker, and the rent
\* and the mess of these sum to the rent and the mess of the session they
\* replace.
SessionsCoverFees ==
  \A s \in Residents :
    LET res == GetStudentLedger(fees, ledger, students, s, today)
        loaded == LoadedFees(fees, s)
        original == FeeSessions(fees, s, students[s], today)[1]
        marked == \E i \in DOMAIN ledger :
                    ledger[i].student = s /\ IsShiftMarker(ledger[i].description)
        split == SelectSeq(res.sessions, LAMBDA x : x.sessionId.kind = "room")
        rent == SumSeq([k \in 1..Len(split) |-> split[k].rentAmount])
        mess == SumSeq([k \in 1..Len(split) |-> split[k].messAmount])
    IN loaded # <<>> =>
         /\ res.code = 200
         /\ \A k \in DOMAIN loaded :
              \/ k = 1 /\ marked
              \/ \E j \in DOMAIN res.sessions :
                   /\ res.sessions[j].sessionId.kind = "fee"
                   /\ res.sessions[j].sessionId.fee = loaded[k]
         /\ marked => rent = original.rentAmount /\ mess = original.messAmount

\* C29: whatever the interleaving of the reads and the saves of concurrent
\* allocateRoom requests, no room is the roomNo of more students than it has
\* beds, and no two requests of different students are answered with the same
\* bed of the same room.
AllocationsRaceSafely ==
  /\ \A r \in Rooms :
       Cardinality({s \in Students : students[s].roomNo = r}) <= Capacity(r)
  /\ \A c, d \in Calls :
       (/\ calls[c].pc = "done" /\ calls[d].pc = "done"
        /\ calls[c].body.code = 200 /\ calls[d].body.code = 200
        /\ calls[c].student # calls[d].student
        /\ calls[c].body.room = calls[d].body.room)
         => calls[c].body.bed # calls[d].body.bed

====
